---------------------------- MODULE Spec2Model ----------------------------
(***************************************************************************)
(* A model of claude-squad's orchestration state:                          *)
(*   - ui.List and ui.RepoTabs: the instance collection, the shared        *)
(*     selection index and the repository filter;                          *)
(*   - config.State: the repository registry, the selection and the        *)
(*     persisted document;                                                 *)
(*   - config.migrateState: the schema migration.                          *)
(* Indices are 0-based as in the Go source; sequences are 1-based, so      *)
(* element i of a Go slice s is s[i + 1].                                  *)
(***************************************************************************)
EXTENDS Integers, Sequences, FiniteSets, TLC

VARIABLES
    list,       \* ui.List: [items, selectedIdx, repos, repoTabs]
    nextId,     \* number of session.Instance objects allocated so far
    killErr,    \* what the last Instance.Kill() called by List.Kill returned
    panicked,   \* a slice index went out of range: the Go runtime panicked
    preview,    \* the last List.SetSessionPreviewSize: calls made, result
    state,      \* config.State: the in-memory document
    disk,       \* the state file: absent, or the last document written
    fsValid,    \* the paths that currently pass ValidateRepositoryPath
    stLast,     \* the last State operation: its name, branch, error, writes
    failSaves,  \* whether SaveState may fail in this run
    mIn,        \* migration: the document read from disk
    mOut,       \* migration: the document after mApplied migrations
    mApplied,   \* migration: how many times migrateState has run
    walk,       \* FindRepositoryForPath: the call in progress
    tmux,       \* the tmux sessions of the instances and the client
    procs       \* concurrent Storage calls: where each is, what it read

listVars == <<list, nextId, killErr, panicked, preview>>
stateVars == <<state, disk, fsValid, stLast, failSaves>>
migVars == <<mIn, mOut, mApplied>>
envVars == <<walk, tmux, procs>>
vars == <<listVars, stateVars, migVars, envVars>>

-----------------------------------------------------------------------------
(* Bounds and input sets                                                   *)

\* Instances allocated in one run (List.AddInstance calls).
MaxCreated == 3

\* Worktree repository roots the instances are checked out from.
ListRepos == {"/w/r1", "/w/r2", "/x/r1"}

\* filepath.Base of the paths above.
FilepathBase(p) ==
    CASE p = "/w/r1" -> "r1"
      [] p = "/w/r2" -> "r2"
      [] p = "/x/r1" -> "r1"
      [] OTHER -> p

-----------------------------------------------------------------------------
(* Sequence helpers: Go slice expressions                                  *)

\* append(s[:i], s[i+1:]...) for a 0-based i with 0 <= i < len(s).
RemoveAt(s, i) == SubSeq(s, 1, i) \o SubSeq(s, i + 2, Len(s))

\* The 0-based position of the first element of s equal to x, -1 if none:
\* the "for i, item := range s { if item == x { ...; break } }" loops.
RECURSIVE IndexFrom(_, _, _)
IndexFrom(s, x, i) ==
    IF i >= Len(s) THEN -1
    ELSE IF s[i + 1] = x THEN i
    ELSE IndexFrom(s, x, i + 1)

IndexOf(s, x) == IndexFrom(s, x, 0)

-----------------------------------------------------------------------------
(* session.Instance, as far as ui.List reads it                            *)

\* An instance object: id is its identity (the pointer), started and
\* repoPath its worktree state, fin whether its finalizer has been called,
\* paused whether its status is Paused.
NewInstance(id, started, repo) ==
    [id |-> id, started |-> started, repoPath |-> repo, fin |-> FALSE,
     paused |-> FALSE]

\* Instance.Started()
Started(inst) == inst.started

\* Instance.GetGitWorktree(): an error before the instance is started,
\* afterwards the worktree (never nil), whose GetRepoPath() is repoPath.
GetGitWorktreeErr(inst) == ~inst.started

GetRepoPath(inst) == inst.repoPath

\* Instance.Paused()
Paused(inst) == inst.paused

-----------------------------------------------------------------------------
(* ui.RepoTabs                                                             *)

NewRepoTabs ==
    [repos |-> <<>>, repoNames |-> <<>>, selectedIdx |-> 0, width |-> 0]

getRepoDisplayName(repoPath) ==
    IF repoPath = "" THEN "unknown" ELSE FilepathBase(repoPath)

\* An AddRepo without the check for an existing entry.
RepoTabsAddRepoUnchecked(rt, repoPath) ==
    [rt EXCEPT !.repos = Append(@, repoPath),
               !.repoNames = Append(@, getRepoDisplayName(repoPath))]

RepoTabsAddRepo(rt, repoPath) ==
    IF IndexOf(rt.repos, repoPath) >= 0 THEN rt
    ELSE [rt EXCEPT !.repos = Append(@, repoPath),
                    !.repoNames = Append(@, getRepoDisplayName(repoPath))]

RepoTabsRemoveRepo(rt, repoPath) ==
    LET i == IndexOf(rt.repos, repoPath) IN
    IF i < 0 THEN rt
    ELSE LET rs == RemoveAt(rt.repos, i)
             ns == RemoveAt(rt.repoNames, i)
         IN [repos |-> rs,
             repoNames |-> ns,
             selectedIdx |->
                 IF rt.selectedIdx >= Len(rs) /\ Len(rs) > 0 THEN Len(rs) - 1
                 ELSE IF Len(rs) = 0 THEN 0
                 ELSE rt.selectedIdx,
             width |-> rt.width]

GetSelectedRepo(rt) ==
    IF rt.selectedIdx >= 0 /\ rt.selectedIdx < Len(rt.repos)
    THEN rt.repos[rt.selectedIdx + 1]
    ELSE ""

\* A ShouldShowTabs that is satisfied with a single repository.
ShouldShowTabsForOne(rt) == Len(rt.repos) > 0

ShouldShowTabs(rt) == Len(rt.repos) > 1

RepoTabsNextRepo(rt) ==
    IF Len(rt.repos) > 0
    THEN [rt EXCEPT !.selectedIdx = (rt.selectedIdx + 1) % Len(rt.repos)]
    ELSE rt

\* A PrevRepo that stays on the first tab instead of wrapping to the last.
RepoTabsPrevRepoStopAtFirst(rt) ==
    IF Len(rt.repos) > 0 /\ rt.selectedIdx > 0
    THEN [rt EXCEPT !.selectedIdx = rt.selectedIdx - 1]
    ELSE rt

RepoTabsPrevRepo(rt) ==
    IF Len(rt.repos) > 0
    THEN [rt EXCEPT !.selectedIdx =
              (rt.selectedIdx - 1 + Len(rt.repos)) % Len(rt.repos)]
    ELSE rt

-----------------------------------------------------------------------------
(* ui.List                                                                 *)

NewList ==
    [items |-> <<>>, selectedIdx |-> 0,
     repos |-> [r \in ListRepos |-> 0],     \* 0: the key is not in the map
     repoTabs |-> NewRepoTabs]

\* The loop of GetFilteredInstances with the else branch lost: instances
\* not yet started are filtered out like those of another repository.
RECURSIVE FilterFromStartedOnly(_, _, _)
FilterFromStartedOnly(its, selectedRepo, i) ==
    IF i > Len(its) THEN <<>>
    ELSE LET instance == its[i]
             rest == FilterFromStartedOnly(its, selectedRepo, i + 1)
         IN IF Started(instance) /\ GetRepoPath(instance) = selectedRepo
            THEN <<instance>> \o rest
            ELSE rest

\* The loop of GetFilteredInstances over items[i..].
RECURSIVE FilterFrom(_, _, _)
FilterFrom(its, selectedRepo, i) ==
    IF i > Len(its) THEN <<>>
    ELSE LET instance == its[i]
             rest == FilterFrom(its, selectedRepo, i + 1)
         IN IF Started(instance)
            THEN IF GetGitWorktreeErr(instance) THEN rest
                 ELSE IF GetRepoPath(instance) = selectedRepo
                      THEN <<instance>> \o rest
                      ELSE rest
            ELSE <<instance>> \o rest

GetFilteredInstances(l) ==
    IF ~ShouldShowTabs(l.repoTabs) THEN l.items
    ELSE LET selectedRepo == GetSelectedRepo(l.repoTabs) IN
         IF selectedRepo = "" THEN l.items
         ELSE FilterFrom(l.items, selectedRepo, 1)

\* The bounds check "if l.selectedIdx >= len(l.items) { l.selectedIdx = 0 }".
BoundsChecked(l) ==
    IF l.selectedIdx >= Len(l.items) THEN [l EXCEPT !.selectedIdx = 0] ELSE l

\* l.items[l.selectedIdx] after the bounds check indexes with a negative
\* selectedIdx: the runtime panics.
SelectionPanics(l) ==
    /\ Len(GetFilteredInstances(l)) > 0
    /\ l.selectedIdx < 0

\* An EnsureValidSelection that stops after the bounds check and never
\* looks for the selection in the filtered view.
EnsureValidSelectionBoundsOnly(l) ==
    IF Len(GetFilteredInstances(l)) = 0 THEN l ELSE BoundsChecked(l)

EnsureValidSelection(l) ==
    LET filteredItems == GetFilteredInstances(l) IN
    IF Len(filteredItems) = 0 THEN l
    ELSE LET b == BoundsChecked(l)
             currentItem == b.items[b.selectedIdx + 1]
         IN IF IndexOf(filteredItems, currentItem) >= 0 THEN b
            ELSE [b EXCEPT !.selectedIdx = IndexOf(b.items, filteredItems[1])]

Up(l) ==
    LET filteredItems == GetFilteredInstances(l) IN
    IF Len(filteredItems) = 0 THEN l
    ELSE LET b == BoundsChecked(l)
             currentFilteredIdx == IndexOf(filteredItems, b.items[b.selectedIdx + 1])
         IN IF currentFilteredIdx = -1
            THEN [b EXCEPT !.selectedIdx = IndexOf(b.items, filteredItems[1])]
            ELSE IF currentFilteredIdx > 0
            THEN [b EXCEPT !.selectedIdx =
                      IndexOf(b.items, filteredItems[currentFilteredIdx])]
            ELSE b

\* A Down that goes from the last filtered item round to the first.
DownWrapping(l) ==
    LET filteredItems == GetFilteredInstances(l) IN
    IF Len(filteredItems) = 0 THEN l
    ELSE LET b == BoundsChecked(l)
             currentFilteredIdx == IndexOf(filteredItems, b.items[b.selectedIdx + 1])
         IN IF currentFilteredIdx = -1
            THEN [b EXCEPT !.selectedIdx = IndexOf(b.items, filteredItems[1])]
            ELSE [b EXCEPT !.selectedIdx =
                      IndexOf(b.items,
                              filteredItems[((currentFilteredIdx + 1)
                                                % Len(filteredItems)) + 1])]

Down(l) ==
    LET filteredItems == GetFilteredInstances(l) IN
    IF Len(filteredItems) = 0 THEN l
    ELSE LET b == BoundsChecked(l)
             currentFilteredIdx == IndexOf(filteredItems, b.items[b.selectedIdx + 1])
         IN IF currentFilteredIdx = -1
            THEN [b EXCEPT !.selectedIdx = IndexOf(b.items, filteredItems[1])]
            ELSE IF currentFilteredIdx < Len(filteredItems) - 1
            THEN [b EXCEPT !.selectedIdx =
                      IndexOf(b.items, filteredItems[currentFilteredIdx + 2])]
            ELSE b

addRepo(l, repo) ==
    LET counted == [l EXCEPT !.repos[repo] = @ + 1,
                             !.repoTabs = RepoTabsAddRepo(@, repo)]
    IN EnsureValidSelection(counted)

rmRepo(l, repo) ==
    IF l.repos[repo] = 0 THEN l
    ELSE IF l.repos[repo] - 1 = 0
    THEN EnsureValidSelection(
             [l EXCEPT !.repos[repo] = 0,
                       !.repoTabs = RepoTabsRemoveRepo(@, repo)])
    ELSE [l EXCEPT !.repos[repo] = @ - 1]

\* List.Kill on a non-empty list whose selectedIdx is in range.  The
\* deferred Up is registered when the selection is the last item at that
\* point; the slice is cut at the selectedIdx that is current after rmRepo.
KillList(l) ==
    LET targetInstance == l.items[l.selectedIdx + 1]
        deferUp == l.selectedIdx = Len(l.items) - 1
        unreg == IF GetGitWorktreeErr(targetInstance) THEN l
                 ELSE rmRepo(l, GetRepoPath(targetInstance))
        cut == [unreg EXCEPT !.items = RemoveAt(@, unreg.selectedIdx)]
    IN IF deferUp THEN Up(cut) ELSE cut

\* l.items[l.selectedIdx] in Kill, Attach, GetSelectedInstance.
IndexInRange(l) == l.selectedIdx >= 0 /\ l.selectedIdx < Len(l.items)


-----------------------------------------------------------------------------
(* config.State: the repository registry                                   *)

CurrentStateVersion == 1

\* Repository paths the registry operations are called with; "" is the
\* empty path.
RealPaths == {"/r1", "/r2"}

StatePaths == {""} \cup RealPaths

\* SanitizeRepositoryName of the paths above: filepath.Base, and for a path
\* whose base is "." (the empty path) the cleaned path itself.
SanitizeRepositoryName(path) ==
    CASE path = "/r1" -> "r1"
      [] path = "/r2" -> "r2"
      [] OTHER -> "."

\* LastAccessed readings (time.Now() and the callers' values).
Times == {0, 1}

\* Largest InstanceCount a caller passes.
MaxCount == 1

\* The RepositoryData values AddRepository and UpdateRepository are given:
\* named as CreateRepositoryData names them, with any access time and count.
RepositoryData ==
    { [Path |-> p, Name |-> SanitizeRepositoryName(p), LastAccessed |-> t,
       CreatedAt |-> 0, InstanceCount |-> c] :
          p \in StatePaths, t \in Times, c \in 0..MaxCount }

\* A State document.  A nil Repositories slice (JSON null, or the field
\* absent) is RepositoriesNil with an empty Repositories.
DefaultState ==
    [HelpScreensSeen |-> 0,
     InstancesData |-> <<>>,
     RepositoriesNil |-> FALSE,
     Repositories |-> <<>>,
     SelectedRepository |-> "",
     StateVersion |-> CurrentStateVersion]

\* "for i, repo := range s.Repositories { if repo.Path == path {...} }":
\* the 0-based index of the first entry with that path, -1 if none.
RECURSIVE RepoIndexFrom(_, _, _)
RepoIndexFrom(repos, path, i) ==
    IF i >= Len(repos) THEN -1
    ELSE IF repos[i + 1].Path = path THEN i
    ELSE RepoIndexFrom(repos, path, i + 1)

RepoIndex(repos, path) == RepoIndexFrom(repos, path, 0)

\* ValidateRepositoryPath: nil error iff the path is non-empty, exists, is
\* a directory and holds a .git entry.
ValidateRepositoryPath(path) == path # "" /\ path \in fsValid

\* The outcome of a State method before its SaveState call: the state it
\* leaves in memory, the error it returns without saving ("" if none),
\* whether it calls SaveState, and the count it returns.
Outcome(s, err, save, n) == [s |-> s, err |-> err, save |-> save, n |-> n]

NotFound(s) == Outcome(s, "notfound", FALSE, 0)

UpdateRepositoryLastAccessed(s, path, now) ==
    LET i == RepoIndex(s.Repositories, path) IN
    IF i < 0 THEN NotFound(s)
    ELSE Outcome([s EXCEPT !.Repositories[i + 1].LastAccessed = now], "", TRUE, 0)

UpdateRepositoryInstanceCount(s, path, count) ==
    LET i == RepoIndex(s.Repositories, path) IN
    IF i < 0 THEN NotFound(s)
    ELSE Outcome([s EXCEPT !.Repositories[i + 1].InstanceCount = count], "", TRUE, 0)

\* An AddRepository that drops the entry with the path and appends the new
\* one: an upsert that does not replace in place.
AddRepositoryMoveToEnd(s, repo) ==
    Outcome([s EXCEPT !.Repositories =
                          Append(SelectSeq(@, LAMBDA r : r.Path # repo.Path), repo),
                      !.RepositoriesNil = FALSE], "", TRUE, 0)

\* An AddRepository that appends a second entry when the one registered
\* under the path differs from the one given.
AddRepositoryAppend(s, repo) ==
    LET i == RepoIndex(s.Repositories, repo.Path) IN
    IF i >= 0 /\ s.Repositories[i + 1] = repo
    THEN Outcome(s, "", TRUE, 0)
    ELSE Outcome([s EXCEPT !.Repositories = Append(@, repo),
                           !.RepositoriesNil = FALSE], "", TRUE, 0)

AddRepository(s, repo) ==
    LET i == RepoIndex(s.Repositories, repo.Path) IN
    IF i >= 0
    THEN Outcome([s EXCEPT !.Repositories[i + 1] = repo], "", TRUE, 0)
    ELSE Outcome([s EXCEPT !.Repositories = Append(@, repo),
                           !.RepositoriesNil = FALSE], "", TRUE, 0)

\* A RemoveRepository that leaves the selection as it is.
RemoveRepositoryKeepSelection(s, path) ==
    LET i == RepoIndex(s.Repositories, path) IN
    IF i < 0 THEN Outcome(s, "notfound", FALSE, 0)
    ELSE Outcome([s EXCEPT !.Repositories = RemoveAt(@, i)], "", TRUE, 0)

\* A RemoveRepository that also deletes the stored instances of the
\* repository.
RemoveRepositoryCascade(s, path) ==
    LET i == RepoIndex(s.Repositories, path) IN
    IF i < 0 THEN Outcome(s, "notfound", FALSE, 0)
    ELSE Outcome([s EXCEPT !.Repositories = RemoveAt(@, i),
                           !.SelectedRepository = IF @ = path THEN "" ELSE @,
                           !.InstancesData =
                               SelectSeq(@, LAMBDA d : d.RepositoryPath # path)],
                 "", TRUE, 0)

RemoveRepository(s, path) ==
    LET i == RepoIndex(s.Repositories, path) IN
    IF i < 0 THEN NotFound(s)
    ELSE Outcome([s EXCEPT !.Repositories = RemoveAt(@, i),
                           !.SelectedRepository = IF @ = path THEN "" ELSE @],
                 "", TRUE, 0)

UpdateRepository(s, repo) ==
    LET i == RepoIndex(s.Repositories, repo.Path) IN
    IF i < 0 THEN NotFound(s)
    ELSE Outcome([s EXCEPT !.Repositories[i + 1] = repo], "", TRUE, 0)

\* A SetSelectedRepository that does not look the path up.
SetSelectedRepositoryUnchecked(s, path) ==
    Outcome([s EXCEPT !.SelectedRepository = path], "", TRUE, 0)

SetSelectedRepository(s, path) ==
    IF path # "" /\ RepoIndex(s.Repositories, path) < 0 THEN NotFound(s)
    ELSE Outcome([s EXCEPT !.SelectedRepository = path], "", TRUE, 0)

\* A cleanup loop that spares the invalid entries that still have instances.
RECURSIVE CleanupLoopSparingUsed(_, _, _, _, _)
CleanupLoopSparingUsed(repos, i, validRepos, removedCount, selected) ==
    IF i > Len(repos)
    THEN [validRepos |-> validRepos, removedCount |-> removedCount,
          selected |-> selected]
    ELSE LET repo == repos[i] IN
         IF ~ValidateRepositoryPath(repo.Path) /\ repo.InstanceCount = 0
         THEN CleanupLoopSparingUsed(repos, i + 1, validRepos, removedCount + 1,
                          IF selected = repo.Path THEN "" ELSE selected)
         ELSE CleanupLoopSparingUsed(repos, i + 1, Append(validRepos, repo),
                          removedCount, selected)

\* The loop of CleanupInvalidRepositories from entry i on, carrying
\* validRepos, removedCount and s.SelectedRepository.
RECURSIVE CleanupLoop(_, _, _, _, _)
CleanupLoop(repos, i, validRepos, removedCount, selected) ==
    IF i > Len(repos)
    THEN [validRepos |-> validRepos, removedCount |-> removedCount,
          selected |-> selected]
    ELSE LET repo == repos[i] IN
         IF ~ValidateRepositoryPath(repo.Path)
         THEN CleanupLoop(repos, i + 1, validRepos, removedCount + 1,
                          IF selected = repo.Path THEN "" ELSE selected)
         ELSE CleanupLoop(repos, i + 1, Append(validRepos, repo),
                          removedCount, selected)

CleanupInvalidRepositories(s) ==
    LET r == CleanupLoop(s.Repositories, 1, <<>>, 0, s.SelectedRepository)
        cleared == [s EXCEPT !.SelectedRepository = r.selected]
    IN IF r.removedCount > 0
       THEN Outcome([cleared EXCEPT !.Repositories = r.validRepos,
                                    !.RepositoriesNil = (r.validRepos = <<>>)],
                    "", TRUE, r.removedCount)
       ELSE Outcome(cleared, "", FALSE, r.removedCount)

\* A compaction loop that removes every entry with zero instances, valid or
\* not.
RECURSIVE CompactLoopDropZero(_, _, _, _)
CompactLoopDropZero(repos, i, validRepos, removedCount) ==
    IF i > Len(repos)
    THEN [validRepos |-> validRepos, removedCount |-> removedCount]
    ELSE LET repo == repos[i] IN
         IF repo.InstanceCount = 0
         THEN CompactLoopDropZero(repos, i + 1, validRepos, removedCount + 1)
         ELSE CompactLoopDropZero(repos, i + 1, Append(validRepos, repo),
                                  removedCount)

\* A compaction loop that validates every entry, whatever its
\* InstanceCount.
RECURSIVE CompactLoopIgnoringCount(_, _, _, _)
CompactLoopIgnoringCount(repos, i, validRepos, removedCount) ==
    IF i > Len(repos)
    THEN [validRepos |-> validRepos, removedCount |-> removedCount]
    ELSE LET repo == repos[i] IN
         IF ~ValidateRepositoryPath(repo.Path)
         THEN CompactLoopIgnoringCount(repos, i + 1, validRepos, removedCount + 1)
         ELSE CompactLoopIgnoringCount(repos, i + 1, Append(validRepos, repo),
                                       removedCount)

\* The loop of CompactRepositories from entry i on.
RECURSIVE CompactLoop(_, _, _, _)
CompactLoop(repos, i, validRepos, removedCount) ==
    IF i > Len(repos)
    THEN [validRepos |-> validRepos, removedCount |-> removedCount]
    ELSE LET repo == repos[i] IN
         IF repo.InstanceCount = 0 /\ ~ValidateRepositoryPath(repo.Path)
         THEN CompactLoop(repos, i + 1, validRepos, removedCount + 1)
         ELSE CompactLoop(repos, i + 1, Append(validRepos, repo), removedCount)

CompactRepositories(s) ==
    LET r == CompactLoop(s.Repositories, 1, <<>>, 0) IN
    IF r.removedCount > 0
    THEN LET found == RepoIndex(r.validRepos, s.SelectedRepository) >= 0 IN
         Outcome([s EXCEPT !.Repositories = r.validRepos,
                           !.RepositoriesNil = (r.validRepos = <<>>),
                           !.SelectedRepository = IF found THEN @ ELSE ""],
                 "", TRUE, r.removedCount)
    ELSE Outcome(s, "", FALSE, r.removedCount)

\* A migration that raises any older version by one.
migrateStateStepwise(s) ==
    IF s.StateVersion < CurrentStateVersion
    THEN [s EXCEPT !.RepositoriesNil = FALSE, !.StateVersion = @ + 1]
    ELSE s

\* A migration to version 1 that sets the new fields to their defaults
\* whatever the document holds.
migrateStateResetFields(s) ==
    IF s.StateVersion = 0
    THEN [s EXCEPT !.RepositoriesNil = FALSE, !.Repositories = <<>>,
                   !.SelectedRepository = "", !.StateVersion = 1]
    ELSE s

\* migrateState: a version-0 document gets its Repositories made non-nil
\* and its version set to 1; any other document is returned as it is.
migrateState(s) ==
    IF s.StateVersion = 0
    THEN [s EXCEPT !.RepositoriesNil = FALSE, !.StateVersion = 1]
    ELSE s

-----------------------------------------------------------------------------
(* The other components at rest, for the specifications of one component   *)

NoDoc == [present |-> FALSE]

\* SetSessionPreviewSize has not been called.
NoPreview == [called |-> FALSE, sent |-> {}, failing |-> {}, err |-> FALSE]

ListIdle ==
    /\ list = NewList
    /\ nextId = 0
    /\ killErr = "none"
    /\ panicked = FALSE
    /\ preview = NoPreview

StateIdle ==
    /\ state = NoDoc
    /\ disk = NoDoc
    /\ fsValid = {}
    /\ stLast = [op |-> "none", hit |-> FALSE, cleared |-> FALSE,
                 n |-> 0, err |-> "", saves |-> 0]
    /\ failSaves = FALSE

MigIdle ==
    /\ mIn = NoDoc
    /\ mOut = NoDoc
    /\ mApplied = 0

NoWalk == [phase |-> "idle"]

NoTmux == <<>>

NoProcs == <<>>

EnvIdle ==
    /\ walk = NoWalk
    /\ tmux = NoTmux
    /\ procs = NoProcs

-----------------------------------------------------------------------------
(* Operations on ui.List                                                   *)

ListInit == ListIdle

\* List.AddInstance: appends the instance; the finalizer it returns is
\* ListFinalize.  The instance is new (not started) or restored from
\* storage (started, with its worktree).
ListAddInstance ==
    /\ ~panicked
    /\ nextId < MaxCreated
    /\ \E started \in BOOLEAN :
         \E repo \in (IF started THEN ListRepos ELSE {""}) :
            list' = [list EXCEPT !.items =
                         Append(@, NewInstance(nextId + 1, started, repo))]
    /\ nextId' = nextId + 1
    /\ UNCHANGED <<killErr, panicked, preview, stateVars, migVars, envVars>>

\* Instance.Start succeeds on an instance of the list: the worktree of
\* repository repo materializes.
InstanceStart ==
    /\ ~panicked
    /\ \E i \in 1..Len(list.items) :
         /\ ~list.items[i].started
         /\ \E repo \in ListRepos :
              list' = [list EXCEPT !.items[i].started = TRUE,
                                   !.items[i].repoPath = repo]
    /\ UNCHANGED <<nextId, killErr, panicked, preview, stateVars, migVars, envVars>>

\* The finalizer returned by AddInstance, called at most once per instance.
ListFinalize ==
    /\ ~panicked
    /\ \E i \in 1..Len(list.items) :
         /\ ~list.items[i].fin
         /\ LET marked == [list EXCEPT !.items[i].fin = TRUE]
                instance == marked.items[i]
            IN IF GetGitWorktreeErr(instance)
               THEN list' = marked /\ UNCHANGED panicked
               ELSE LET counted ==
                            [marked EXCEPT
                                !.repos[GetRepoPath(instance)] = @ + 1,
                                !.repoTabs = RepoTabsAddRepo(@, GetRepoPath(instance))]
                    IN IF SelectionPanics(counted)
                       THEN list' = counted /\ panicked' = TRUE
                       ELSE /\ list' = addRepo(marked, GetRepoPath(instance))
                            /\ UNCHANGED panicked
    /\ UNCHANGED <<nextId, killErr, preview, stateVars, migVars, envVars>>

\* List.Kill.  Instance.Kill() on a started instance may return an error,
\* which is logged; on an instance never started it returns nil.
ListKill ==
    /\ ~panicked
    /\ IF Len(list.items) = 0
       THEN UNCHANGED listVars
       ELSE IF ~IndexInRange(list)
       THEN panicked' = TRUE /\ UNCHANGED <<list, nextId, killErr>>
       ELSE /\ \E err \in (IF Started(list.items[list.selectedIdx + 1])
                           THEN {"nil", "err"} ELSE {"nil"}) :
                 killErr' = err
            /\ list' = KillList(list)
            /\ UNCHANGED <<nextId, panicked>>
    /\ UNCHANGED <<preview, stateVars, migVars, envVars>>

ListUp ==
    /\ ~panicked
    /\ IF SelectionPanics(list)
       THEN panicked' = TRUE /\ UNCHANGED list
       ELSE list' = Up(list) /\ UNCHANGED panicked
    /\ UNCHANGED <<nextId, killErr, preview, stateVars, migVars, envVars>>

ListDown ==
    /\ ~panicked
    /\ IF SelectionPanics(list)
       THEN panicked' = TRUE /\ UNCHANGED list
       ELSE list' = Down(list) /\ UNCHANGED panicked
    /\ UNCHANGED <<nextId, killErr, preview, stateVars, migVars, envVars>>

\* List.NextRepo / List.PrevRepo: move the tab, then EnsureValidSelection.
SwitchRepo(l, moved) ==
    IF ShouldShowTabs(l.repoTabs)
    THEN EnsureValidSelection([l EXCEPT !.repoTabs = moved])
    ELSE l

NextRepo(l) == SwitchRepo(l, RepoTabsNextRepo(l.repoTabs))

PrevRepo(l) == SwitchRepo(l, RepoTabsPrevRepo(l.repoTabs))

ListNextRepo ==
    /\ ~panicked
    /\ LET moved == [list EXCEPT !.repoTabs = RepoTabsNextRepo(@)] IN
       IF ShouldShowTabs(list.repoTabs) /\ SelectionPanics(moved)
       THEN panicked' = TRUE /\ list' = moved
       ELSE list' = NextRepo(list) /\ UNCHANGED panicked
    /\ UNCHANGED <<nextId, killErr, preview, stateVars, migVars, envVars>>

ListPrevRepo ==
    /\ ~panicked
    /\ LET moved == [list EXCEPT !.repoTabs = RepoTabsPrevRepo(@)] IN
       IF ShouldShowTabs(list.repoTabs) /\ SelectionPanics(moved)
       THEN panicked' = TRUE /\ list' = moved
       ELSE list' = PrevRepo(list) /\ UNCHANGED panicked
    /\ UNCHANGED <<nextId, killErr, preview, stateVars, migVars, envVars>>

\* List.SetSelectedInstance(idx): "if idx >= len(l.items) { return }".
SetSelectedInstance(l, idx) ==
    IF idx >= Len(l.items) THEN l ELSE [l EXCEPT !.selectedIdx = idx]

ListSetSelectedInstance ==
    /\ ~panicked
    /\ \E idx \in -1..MaxCreated : list' = SetSelectedInstance(list, idx)
    /\ UNCHANGED <<nextId, killErr, panicked, preview, stateVars, migVars, envVars>>

\* Add/remove only: AddInstance, the instance starting, its finalizer, Kill.
AddKillNext ==
    \/ ListAddInstance
    \/ InstanceStart
    \/ ListFinalize
    \/ ListKill

AddKillInit == ListInit /\ StateIdle /\ MigIdle /\ EnvIdle

SpecAddKill == AddKillInit /\ [][AddKillNext]_vars

ListNext ==
    \/ AddKillNext
    \/ ListUp
    \/ ListDown
    \/ ListNextRepo
    \/ ListPrevRepo
    \/ ListSetSelectedInstance

SpecList == AddKillInit /\ [][ListNext]_vars

-----------------------------------------------------------------------------
(* Operations on config.State                                              *)

\* LoadState found no file: it wrote the default document and returned it.
StateInit ==
    /\ state = DefaultState
    /\ disk = [present |-> TRUE, doc |-> DefaultState]
    /\ fsValid \in SUBSET RealPaths
    /\ stLast = [op |-> "LoadState", hit |-> FALSE, cleared |-> FALSE,
                 n |-> 0, err |-> "", saves |-> 1]
    /\ failSaves = FALSE

\* SaveState(s): writes the whole document, or fails and leaves the file.
SaveOutcomes == IF failSaves THEN {TRUE, FALSE} ELSE {TRUE}

\* A State method called with path returns: the state it left in memory,
\* then its SaveState call if it makes one, whose error it returns.  stLast
\* keeps the call and what it returned: hit, whether path was the Path of a
\* registry entry when it was called; cleared, whether it emptied a
\* non-empty selection.
Finish(op, path, o) ==
    /\ state' = o.s
    /\ LET hit == RepoIndex(state.Repositories, path) >= 0
           cleared == /\ state.SelectedRepository # ""
                      /\ o.s.SelectedRepository = ""
       IN IF o.save
          THEN \E ok \in SaveOutcomes :
                 /\ disk' = IF ok THEN [present |-> TRUE, doc |-> o.s] ELSE disk
                 /\ stLast' = [op |-> op, hit |-> hit, cleared |-> cleared,
                               n |-> o.n,
                               err |-> IF ok THEN "" ELSE "saveerr",
                               saves |-> 1]
          ELSE /\ disk' = disk
               /\ stLast' = [op |-> op, hit |-> hit, cleared |-> cleared,
                             n |-> o.n, err |-> o.err, saves |-> 0]
    /\ UNCHANGED <<fsValid, failSaves, listVars, migVars, envVars>>

StateAddRepository ==
    \E repo \in RepositoryData :
        Finish("AddRepository", repo.Path, AddRepository(state, repo))

StateRemoveRepository ==
    \E path \in StatePaths :
        Finish("RemoveRepository", path, RemoveRepository(state, path))

StateUpdateRepository ==
    \E repo \in RepositoryData :
        Finish("UpdateRepository", repo.Path, UpdateRepository(state, repo))

StateSetSelectedRepository ==
    \E path \in StatePaths :
        Finish("SetSelectedRepository", path, SetSelectedRepository(state, path))

StateUpdateRepositoryInstanceCount ==
    \E path \in StatePaths, count \in 0..MaxCount :
        Finish("UpdateRepositoryInstanceCount", path,
               UpdateRepositoryInstanceCount(state, path, count))

StateUpdateRepositoryLastAccessed ==
    \E path \in StatePaths, now \in Times :
        Finish("UpdateRepositoryLastAccessed", path,
               UpdateRepositoryLastAccessed(state, path, now))

StateCleanupInvalidRepositories ==
    Finish("CleanupInvalidRepositories", "", CleanupInvalidRepositories(state))

StateCompactRepositories ==
    Finish("CompactRepositories", "", CompactRepositories(state))

\* The file system changes under the program: repositories are deleted,
\* moved, re-created.
FsChange ==
    /\ \E valid \in SUBSET RealPaths : fsValid' = valid
    /\ UNCHANGED <<state, disk, stLast, failSaves, listVars, migVars, envVars>>

StateNext ==
    \/ StateAddRepository
    \/ StateRemoveRepository
    \/ StateUpdateRepository
    \/ StateSetSelectedRepository
    \/ StateUpdateRepositoryInstanceCount
    \/ StateUpdateRepositoryLastAccessed
    \/ StateCleanupInvalidRepositories
    \/ StateCompactRepositories
    \/ FsChange

RegistryInit == ListIdle /\ StateInit /\ MigIdle /\ EnvIdle

SpecState == RegistryInit /\ [][StateNext]_vars

-----------------------------------------------------------------------------
(* Claims about ui.List                                                    *)

\* The selected instance is a member of the filtered view.
SelectionVisible(l) ==
    /\ IndexInRange(l)
    /\ IndexOf(GetFilteredInstances(l), l.items[l.selectedIdx + 1]) >= 0

\* Every started instance of the list has had its repository registered by
\* its finalizer (no instance is between Start and its finalizer).
AllRegistered(l) ==
    \A i \in 1..Len(l.items) : l.items[i].started => l.items[i].fin

\* C1: after any sequence of AddInstance (with its finalizer) and Kill, the
\* selection index refers to a member of the filtered view whenever that
\* view is non-empty.
C1_SelectionInFilteredView ==
    (~panicked /\ AllRegistered(list) /\ Len(GetFilteredInstances(list)) > 0)
        => SelectionVisible(list)

\* C2: List.Kill on a non-empty list removes exactly the instance that was
\* selected when it was called, whatever Instance.Kill() returned; all the
\* others stay, in their order.
C2_KillRemovesSelected ==
    [][(ListKill /\ Len(list.items) > 0 /\ IndexInRange(list))
         => list'.items = SelectSeq(list.items,
                LAMBDA x : x.id # list.items[list.selectedIdx + 1].id)]_vars

\* The instances the filter on repository R is meant to show: those not
\* started, and the started ones whose worktree is in R.
VisibleUnder(R, inst) == ~inst.started \/ inst.repoPath = R

\* C3: with two or more tabs and repository R selected,
\* GetFilteredInstances is, in collection order, the instances not yet
\* started together with the started instances of R.
C3_FilteredViewIsUnstartedPlusSelectedRepo ==
    (ShouldShowTabs(list.repoTabs) /\ GetSelectedRepo(list.repoTabs) # "")
        => GetFilteredInstances(list) =
               SelectSeq(list.items,
                   LAMBDA x : VisibleUnder(GetSelectedRepo(list.repoTabs), x))

\* I1 (started, R1), I2 (started, R2), I3 (not started), R1 selected: the
\* view is I1, I3.
C3_Witness ==
    /\ Len(list.items) = 3
    /\ list.items[1].started /\ list.items[1].repoPath = "/w/r1"
    /\ list.items[2].started /\ list.items[2].repoPath = "/w/r2"
    /\ ~list.items[3].started
    /\ ShouldShowTabs(list.repoTabs)
    /\ GetSelectedRepo(list.repoTabs) = "/w/r1"
    /\ GetFilteredInstances(list) = <<list.items[1], list.items[3]>>

-----------------------------------------------------------------------------
(* Claims about the repository registry                                    *)

Paths(repos) == {repos[i].Path : i \in 1..Len(repos)}

\* The number of entries of repos whose Path is path.
CountPath(repos, path) ==
    Cardinality({i \in 1..Len(repos) : repos[i].Path = path})

\* C4: AddRepository is an upsert, idempotent by path.  Called on any
\* registry the program reaches with any RepositoryData: if its Path is
\* already registered the entry is replaced in place and the number of
\* entries does not change, otherwise it is appended; afterwards exactly one
\* entry has that Path, it carries the metadata given, and adding the same
\* RepositoryData again changes nothing.
C4_AddRepositoryUpsert ==
    \A repo \in RepositoryData :
        LET old == state.Repositories
            o == AddRepository(state, repo)
            new == o.s.Repositories
        IN /\ o.err = ""
           /\ \A i \in 1..Len(old) :
                 old[i].Path = repo.Path
                   => /\ Len(new) = Len(old)
                      /\ new = [old EXCEPT ![i] = repo]
           /\ repo.Path \notin Paths(old) => new = Append(old, repo)
           /\ CountPath(new, repo.Path) = 1
           /\ \A i \in 1..Len(new) : new[i].Path = repo.Path => new[i] = repo
           /\ AddRepository(o.s, repo).s = o.s

\* An AddRepository whose path was already registered, as the first of two
\* entries, has just replaced that entry: the same path was added twice.
C4_Witness ==
    /\ stLast.op = "AddRepository"
    /\ stLast.hit
    /\ Len(state.Repositories) = 2
    /\ state.Repositories[1].InstanceCount = 1
    /\ state.Repositories[1].LastAccessed = 1

\* C5: no two entries of State.Repositories have the same Path.
C5_PathsUnique ==
    \A i, j \in 1..Len(state.Repositories) :
        state.Repositories[i].Path = state.Repositories[j].Path => i = j

\* A full registry on which AddRepository has just been called with a path
\* that was already registered.
C5_Witness ==
    /\ stLast.op = "AddRepository"
    /\ stLast.hit
    /\ Len(state.Repositories) = Cardinality(StatePaths)

\* C6: SelectedRepository is empty or the Path of a registry entry.
C6_SelectionRegistered ==
    \/ state.SelectedRepository = ""
    \/ state.SelectedRepository \in Paths(state.Repositories)

\* A removal or cleanup has just taken the selected repository out of the
\* registry and emptied the selection, other repositories remaining.
C6_Witness ==
    /\ stLast.op \in {"RemoveRepository", "CleanupInvalidRepositories",
                      "CompactRepositories"}
    /\ stLast.cleared
    /\ state.SelectedRepository = ""
    /\ Len(state.Repositories) >= 1

\* One of the five lookup methods is called with path.
LookupCall(path) ==
    \/ Finish("SetSelectedRepository", path, SetSelectedRepository(state, path))
    \/ Finish("RemoveRepository", path, RemoveRepository(state, path))
    \/ \E repo \in RepositoryData :
         /\ repo.Path = path
         /\ Finish("UpdateRepository", path, UpdateRepository(state, repo))
    \/ \E count \in 0..MaxCount :
         Finish("UpdateRepositoryInstanceCount", path,
                UpdateRepositoryInstanceCount(state, path, count))
    \/ \E now \in Times :
         Finish("UpdateRepositoryLastAccessed", path,
                UpdateRepositoryLastAccessed(state, path, now))

\* C7: called with a non-empty path that is not registered,
\* SetSelectedRepository, RemoveRepository, UpdateRepository,
\* UpdateRepositoryInstanceCount and UpdateRepositoryLastAccessed return
\* not-found, leave the state in memory as it was and do not persist;
\* SetSelectedRepository("") succeeds and empties the selection.
C7_UnknownPathNotFound ==
    [][/\ \A path \in StatePaths \ {""} :
            (path \notin Paths(state.Repositories) /\ LookupCall(path))
              => /\ stLast'.err = "notfound"
                 /\ stLast'.saves = 0
                 /\ state' = state
                 /\ disk' = disk
       /\ Finish("SetSelectedRepository", "", SetSelectedRepository(state, ""))
            => /\ stLast'.err = ""
               /\ state'.SelectedRepository = ""]_vars

\* SetSelectedRepository has just returned not-found, which it does only
\* for a non-empty path, with another repository registered and selected.
C7_Witness ==
    /\ stLast.op = "SetSelectedRepository"
    /\ stLast.err = "notfound"
    /\ ~stLast.hit
    /\ stLast.saves = 0
    /\ state.SelectedRepository # ""
    /\ Len(state.Repositories) >= 1

\* C8: CleanupInvalidRepositories removes every entry whose path fails
\* ValidateRepositoryPath and no other; the survivors keep their order and
\* the count returned is the number of entries removed.
C8_CleanupRemovesExactlyInvalid ==
    [][Finish("CleanupInvalidRepositories", "", CleanupInvalidRepositories(state))
         => /\ state'.Repositories =
                   SelectSeq(state.Repositories,
                             LAMBDA r : ValidateRepositoryPath(r.Path))
            /\ stLast'.n =
                   Len(state.Repositories) - Len(state'.Repositories)]_vars

\* A cleanup has just removed one entry and kept two.
C8_Witness ==
    /\ stLast.op = "CleanupInvalidRepositories"
    /\ stLast.n = 1
    /\ Len(state.Repositories) = 2

-----------------------------------------------------------------------------
(* Migration: migrateState applied to the documents LoadState can parse    *)

\* Largest state_version a document on disk carries.
MaxVersion == 2

\* How many times migrateState is run on one document.
MaxMigrations == 2

HelpMasks == {0, 5}

\* The instances field of a document: no records, or one.
MigInstances ==
    {<<>>, <<[Title |-> 1, RepositoryPath |-> "/r1", Restorable |-> TRUE]>>}

\* Documents as json.Unmarshal yields them: the repositories field absent
\* or null (nil), empty, or with an entry; state_version absent is 0.
MigDocs ==
    { [HelpScreensSeen |-> h, InstancesData |-> inst,
       RepositoriesNil |-> r.isNil, Repositories |-> r.list,
       SelectedRepository |-> sel, StateVersion |-> v] :
          h \in HelpMasks,
          r \in { [isNil |-> TRUE, list |-> <<>>],
                  [isNil |-> FALSE, list |-> <<>>],
                  [isNil |-> FALSE,
                   list |-> <<[Path |-> "/r1", Name |-> "r1", LastAccessed |-> 0,
                               CreatedAt |-> 0, InstanceCount |-> 0]>>] },
          sel \in {"", "/r1"},
          inst \in MigInstances,
          v \in -1..MaxVersion }

MigInit ==
    /\ mIn \in MigDocs
    /\ mOut = mIn
    /\ mApplied = 0

MigrateStep ==
    /\ mApplied < MaxMigrations
    /\ mOut' = migrateState(mOut)
    /\ mApplied' = mApplied + 1
    /\ UNCHANGED <<mIn, listVars, stateVars, envVars>>

MigrationInit == ListIdle /\ StateIdle /\ MigInit /\ EnvIdle

SpecMigrate == MigrationInit /\ [][MigrateStep]_vars

\* C10: migrateState is idempotent: once a document has been migrated,
\* migrating it again gives the same document.
C10_MigrateIdempotent ==
    /\ mApplied >= 1 => migrateState(mOut) = mOut
    /\ migrateState(migrateState(mIn)) = migrateState(mIn)

\* A version-0 document without a repositories field, migrated twice.
C10_Witness ==
    /\ mApplied = 2
    /\ mIn.StateVersion = 0
    /\ mIn.RepositoriesNil
    /\ mOut.StateVersion = 1
    /\ ~mOut.RepositoriesNil

\* C11: migration is additive and monotonic.  migrateState never lowers
\* StateVersion; a document at the current version or above is left as it
\* is; a version-0 document gets StateVersion 1 and a non-nil repositories
\* list, and keeps its HelpScreensSeen, instances data, repositories and
\* selected repository.
C11_MigrateAdditiveMonotonic ==
    mApplied >= 1 =>
        /\ mOut.StateVersion >= mIn.StateVersion
        /\ mIn.StateVersion >= CurrentStateVersion => mOut = mIn
        /\ mIn.StateVersion = 0 =>
              /\ mOut.StateVersion = 1
              /\ ~mOut.RepositoriesNil
              /\ mOut.Repositories = mIn.Repositories
              /\ mOut.HelpScreensSeen = mIn.HelpScreensSeen
              /\ mOut.InstancesData = mIn.InstancesData
              /\ mOut.SelectedRepository = mIn.SelectedRepository

\* A version-0 document with help screens seen, an instance, a repository
\* and a selection has been migrated.
C11_Witness ==
    /\ mApplied = 1
    /\ mIn.StateVersion = 0
    /\ mIn.HelpScreensSeen = 5
    /\ mIn.InstancesData # <<>>
    /\ mIn.Repositories # <<>>
    /\ mIn.SelectedRepository = "/r1"
    /\ mOut.StateVersion = 1
    /\ mOut.Repositories = mIn.Repositories

-----------------------------------------------------------------------------
(* LoadState: reading the state file at start-up                           *)

\* A state file whose content json.Unmarshal rejects.
Garbled == [present |-> TRUE, doc |-> [garbled |-> TRUE]]

Parses(file) == "garbled" \notin DOMAIN file.doc

\* What the environment does to LoadState: nothing, GetConfigDir fails, or
\* os.ReadFile fails with an error other than not-exist.
LoadEnvs == {"ok", "noconfigdir", "unreadable"}

\* A LoadState that answers a parse error as it answers a missing file, by
\* writing the default document.
LoadStateOverwriting(file, env) ==
    IF env # "ok" THEN [s |-> DefaultState, save |-> FALSE, log |-> env]
    ELSE IF ~file.present \/ ~Parses(file)
    THEN [s |-> DefaultState, save |-> TRUE, log |-> "default"]
    ELSE [s |-> migrateState(file.doc), save |-> FALSE, log |-> ""]

\* LoadState on the file as it is: the state it returns, whether it calls
\* SaveState on it, and what it logs.  migrateState works on the parsed
\* document in place and returns it, so migratedState and state are one
\* object when their StateVersion fields are compared.
LoadState(file, env) ==
    IF env # "ok" THEN [s |-> DefaultState, save |-> FALSE, log |-> env]
    ELSE IF ~file.present
    THEN [s |-> DefaultState, save |-> TRUE, log |-> "notexist"]
    ELSE IF ~Parses(file)
    THEN [s |-> DefaultState, save |-> FALSE, log |-> "parse"]
    ELSE LET migratedState == migrateState(file.doc) IN
         [s |-> migratedState,
          save |-> migratedState.StateVersion # migratedState.StateVersion,
          log |-> ""]

\* The state files a run may find: none, a garbled one, any document.
LoadFiles ==
    {NoDoc, Garbled} \cup {[present |-> TRUE, doc |-> d] : d \in MigDocs}

LoadInit ==
    /\ state = NoDoc
    /\ disk \in LoadFiles
    /\ fsValid = {}
    /\ stLast = [op |-> "none", hit |-> FALSE, cleared |-> FALSE,
                 n |-> 0, err |-> "", saves |-> 0]
    /\ failSaves = FALSE

\* LoadState called under env; a failed SaveState is logged and ignored.
LoadCall(env) ==
    LET o == LoadState(disk, env) IN
    /\ state' = o.s
    /\ IF o.save
       THEN \E ok \in SaveOutcomes :
              disk' = IF ok THEN [present |-> TRUE, doc |-> o.s] ELSE disk
       ELSE disk' = disk
    /\ stLast' = [op |-> "LoadState", hit |-> FALSE, cleared |-> FALSE,
                  n |-> 0, err |-> "", saves |-> IF o.save THEN 1 ELSE 0]
    /\ UNCHANGED <<fsValid, failSaves, listVars, migVars, envVars>>

LoadStep == \E env \in LoadEnvs : LoadCall(env)

StartupInit == ListIdle /\ LoadInit /\ MigIdle /\ EnvIdle

SpecLoad == StartupInit /\ [][LoadStep]_vars

\* The state the program holds is the default: zero bitmask, no instances,
\* no repositories, no selection, the current version.
IsDefault(s) ==
    /\ s.HelpScreensSeen = 0
    /\ s.InstancesData = <<>>
    /\ s.Repositories = <<>> /\ ~s.RepositoriesNil
    /\ s.SelectedRepository = ""
    /\ s.StateVersion = CurrentStateVersion

\* C12: LoadState with the state file absent writes a default document to
\* disk and returns it; with a file that cannot be read or parsed it
\* returns a default held in memory only and leaves the file as it was.
C12_LoadStateDefaults ==
    [][\A env \in LoadEnvs :
         LoadCall(env) =>
           /\ (env = "ok" /\ ~disk.present)
                => /\ IsDefault(state')
                   /\ disk'.present /\ disk'.doc = state'
                   /\ stLast'.saves = 1
           /\ (disk.present /\ (env # "ok" \/ ~Parses(disk)))
                => /\ IsDefault(state')
                   /\ disk' = disk
                   /\ stLast'.saves = 0]_vars

\* LoadState has found no file and written the default document.
C12_Witness ==
    /\ stLast.op = "LoadState"
    /\ stLast.saves = 1
    /\ disk.present /\ IsDefault(disk.doc)
    /\ IsDefault(state)

-----------------------------------------------------------------------------
(* session.Storage: the stored instance records and the registry           *)

\* Largest number of instance records in the stored document.
MaxStored == 2

\* A stored InstanceData record: its title, the repository it belongs to
\* ("" for a record written before repositories existed), and whether
\* FromInstanceData can rebuild an instance from it.  Titles are unique
\* keys: the title of the i-th record of a stored list is named i.
RecordShapes ==
    { [RepositoryPath |-> p, Restorable |-> b] : p \in StatePaths, b \in BOOLEAN }

StoredLists ==
    UNION { { [i \in 1..n |-> [Title |-> i,
                               RepositoryPath |-> f[i].RepositoryPath,
                               Restorable |-> f[i].Restorable]] :
                  f \in [1..n -> RecordShapes] } : n \in 0..MaxStored }

\* Registries as a loaded document holds them: entries with distinct paths
\* and any stored InstanceCount.
Registries ==
    { r \in UNION { [1..n -> {rd \in RepositoryData : rd.LastAccessed = 0}] :
                        n \in 0..Cardinality(StatePaths) } :
          \A i, j \in 1..Len(r) : r[i].Path = r[j].Path => i = j }

\* FromInstanceData: an error for a record that cannot be rebuilt,
\* otherwise a started instance carrying the record.
FromInstanceData(data) ==
    [err |-> ~data.Restorable, instance |-> [data |-> data, started |-> TRUE]]

\* Instance.ToInstanceData
ToInstanceData(instance) == instance.data

\* Storage.LoadInstances: every record rebuilt, or the first error.
LoadInstances(s) ==
    IF \E i \in 1..Len(s.InstancesData) : FromInstanceData(s.InstancesData[i]).err
    THEN [err |-> TRUE, instances |-> <<>>]
    ELSE [err |-> FALSE,
          instances |-> [i \in 1..Len(s.InstancesData) |->
                             FromInstanceData(s.InstancesData[i]).instance]]

\* A SaveInstances loop without the Started test: every instance is
\* written.
RECURSIVE StartedDataUnfiltered(_, _)
StartedDataUnfiltered(instances, i) ==
    IF i > Len(instances) THEN <<>>
    ELSE <<ToInstanceData(instances[i])>> \o StartedDataUnfiltered(instances, i + 1)

\* The loop of Storage.SaveInstances: the data of the started instances.
RECURSIVE StartedData(_, _)
StartedData(instances, i) ==
    IF i > Len(instances) THEN <<>>
    ELSE IF instances[i].started
    THEN <<ToInstanceData(instances[i])>> \o StartedData(instances, i + 1)
    ELSE StartedData(instances, i + 1)

\* Storage.SaveInstances, through State.SaveInstances.
SaveInstances(s, instances) ==
    Outcome([s EXCEPT !.InstancesData = StartedData(instances, 1)], "", TRUE, 0)

\* An orphan loop that keeps only the instances of registered
\* repositories, those without a repository dropped with the orphans.
RECURSIVE OrphanLoopDropLegacy(_, _, _, _, _)
OrphanLoopDropLegacy(allInstances, i, repoMap, validInstances, orphanedCount) ==
    IF i > Len(allInstances)
    THEN [validInstances |-> validInstances, orphanedCount |-> orphanedCount]
    ELSE LET data == ToInstanceData(allInstances[i]) IN
         IF data.RepositoryPath \in repoMap
         THEN OrphanLoopDropLegacy(allInstances, i + 1, repoMap,
                         Append(validInstances, allInstances[i]), orphanedCount)
         ELSE OrphanLoopDropLegacy(allInstances, i + 1, repoMap,
                         validInstances, orphanedCount + 1)

\* The loop of CleanupOrphanedInstances from instance i on; repoMap is the
\* set of registered paths.
RECURSIVE OrphanLoop(_, _, _, _, _)
OrphanLoop(allInstances, i, repoMap, validInstances, orphanedCount) ==
    IF i > Len(allInstances)
    THEN [validInstances |-> validInstances, orphanedCount |-> orphanedCount]
    ELSE LET data == ToInstanceData(allInstances[i]) IN
         IF data.RepositoryPath = "" \/ data.RepositoryPath \in repoMap
         THEN OrphanLoop(allInstances, i + 1, repoMap,
                         Append(validInstances, allInstances[i]), orphanedCount)
         ELSE OrphanLoop(allInstances, i + 1, repoMap,
                         validInstances, orphanedCount + 1)

\* Storage.CleanupOrphanedInstances
CleanupOrphanedInstances(s) ==
    LET loaded == LoadInstances(s) IN
    IF loaded.err THEN Outcome(s, "loaderr", FALSE, 0)
    ELSE LET repoMap == {s.Repositories[i].Path : i \in 1..Len(s.Repositories)}
             r == OrphanLoop(loaded.instances, 1, repoMap, <<>>, 0)
         IN IF r.orphanedCount > 0
            THEN LET saved == SaveInstances(s, r.validInstances) IN
                 Outcome(saved.s, "", TRUE, r.orphanedCount)
            ELSE Outcome(s, "", FALSE, 0)

\* Storage.GetInstanceCountByRepository on the loaded instances: the map
\* counts, a path that is not a key reading as 0.
GetInstanceCountByRepository(allInstances) ==
    [p \in StatePaths |->
        Cardinality({i \in 1..Len(allInstances) :
                        LET data == ToInstanceData(allInstances[i]) IN
                        data.RepositoryPath # "" /\ data.RepositoryPath = p})]

\* A counts loop that updates only the repositories that are keys of the
\* counts map, leaving the stored count of a repository without instances.
RECURSIVE UpdateCountsLoopSkipZero(_, _, _, _)
UpdateCountsLoopSkipZero(s, i, counts, saves) ==
    IF i > Len(s.Repositories) THEN [s |-> s, err |-> "", saves |-> saves]
    ELSE LET repo == s.Repositories[i]
             o == UpdateRepositoryInstanceCount(s, repo.Path, counts[repo.Path])
         IN IF counts[repo.Path] = 0
            THEN UpdateCountsLoopSkipZero(s, i + 1, counts, saves)
            ELSE UpdateCountsLoopSkipZero(o.s, i + 1, counts, saves + 1)

\* The loop of UpdateInstanceCounts from repository i on, each
\* UpdateRepositoryInstanceCount saving the state; saves counts the
\* SaveState calls.
RECURSIVE UpdateCountsLoop(_, _, _, _)
UpdateCountsLoop(s, i, counts, saves) ==
    IF i > Len(s.Repositories) THEN [s |-> s, err |-> "", saves |-> saves]
    ELSE LET repo == s.Repositories[i]
             o == UpdateRepositoryInstanceCount(s, repo.Path, counts[repo.Path])
         IN IF o.err # "" THEN [s |-> o.s, err |-> o.err, saves |-> saves]
            ELSE UpdateCountsLoop(o.s, i + 1, counts, saves + 1)

\* Storage.UpdateInstanceCounts
UpdateInstanceCounts(s) ==
    LET loaded == LoadInstances(s) IN
    IF loaded.err THEN [s |-> s, err |-> "loaderr", saves |-> 0]
    ELSE UpdateCountsLoop(s, 1, GetInstanceCountByRepository(loaded.instances), 0)

\* RepositoryManager.RemoveRepositoryAndCleanup: State.RemoveRepository,
\* its error wrapped; the storage is not touched.
RemoveRepositoryAndCleanup(s, path) == RemoveRepository(s, path)

\* A document as loaded: any registry, any stored instance records.
StorageInit ==
    /\ state \in { [DefaultState EXCEPT !.Repositories = r, !.InstancesData = l] :
                       r \in Registries, l \in StoredLists }
    /\ disk = [present |-> TRUE, doc |-> state]
    /\ fsValid = {}
    /\ stLast = [op |-> "LoadState", hit |-> FALSE, cleared |-> FALSE,
                 n |-> 0, err |-> "", saves |-> 0]
    /\ failSaves = FALSE

StorageCleanupOrphanedInstances ==
    Finish("CleanupOrphanedInstances", "", CleanupOrphanedInstances(state))

\* Storage.UpdateInstanceCounts, SaveState succeeding each time it is
\* called.
StorageUpdateInstanceCounts ==
    LET o == UpdateInstanceCounts(state) IN
    /\ state' = o.s
    /\ disk' = IF o.saves > 0 THEN [present |-> TRUE, doc |-> o.s] ELSE disk
    /\ stLast' = [op |-> "UpdateInstanceCounts", hit |-> FALSE,
                  cleared |-> FALSE, n |-> 0, err |-> o.err, saves |-> o.saves]
    /\ UNCHANGED <<fsValid, failSaves, listVars, migVars, envVars>>

ManagerRemoveRepositoryAndCleanup ==
    \E path \in StatePaths :
        Finish("RemoveRepositoryAndCleanup", path,
               RemoveRepositoryAndCleanup(state, path))

StorageNext ==
    \/ StorageCleanupOrphanedInstances
    \/ StorageUpdateInstanceCounts
    \/ StateRemoveRepository
    \/ ManagerRemoveRepositoryAndCleanup

StoredInit == ListIdle /\ StorageInit /\ MigIdle /\ EnvIdle

SpecStorage == StoredInit /\ [][StorageNext]_vars

-----------------------------------------------------------------------------
(* Claims about the stored instances                                       *)

\* A stored record that belongs to no registered repository.
Orphan(data, repos) ==
    data.RepositoryPath # "" /\ data.RepositoryPath \notin Paths(repos)

\* C13: a CleanupOrphanedInstances that succeeds leaves the stored list
\* restricted to the records whose RepositoryPath is empty or registered,
\* in the same order; it persists the list iff it dropped an orphan, and
\* running it again changes nothing.
C13_CleanupDropsExactlyOrphans ==
    [][(/\ Finish("CleanupOrphanedInstances", "", CleanupOrphanedInstances(state))
        /\ stLast'.err = "")
         => /\ state'.InstancesData =
                   SelectSeq(state.InstancesData,
                             LAMBDA d : ~Orphan(d, state.Repositories))
            /\ state'.Repositories = state.Repositories
            /\ stLast'.saves = 1
                  <=> Len(state'.InstancesData) < Len(state.InstancesData)
            /\ stLast'.saves = 1 => disk' = [present |-> TRUE, doc |-> state']
            /\ stLast'.saves = 0 => disk' = disk
            /\ CleanupOrphanedInstances(state').s = state'
            /\ ~CleanupOrphanedInstances(state').save]_vars

\* A cleanup has just dropped the first of two records, an orphan, and
\* kept the second, which belongs to a registered repository.
C13_Witness ==
    /\ stLast.op = "CleanupOrphanedInstances"
    /\ stLast.err = ""
    /\ stLast.n = 1
    /\ stLast.saves = 1
    /\ Len(state.InstancesData) = 1
    /\ state.InstancesData[1].Title = 2
    /\ state.InstancesData[1].RepositoryPath # ""
    /\ state.InstancesData[1].RepositoryPath \in Paths(state.Repositories)

\* The number of stored records whose RepositoryPath is path.
StoredCount(s, path) ==
    Cardinality({j \in 1..Len(s.InstancesData) :
                    s.InstancesData[j].RepositoryPath = path})

\* An UpdateInstanceCounts step that returns no error.
UpdateInstanceCountsSucceeds ==
    /\ StorageUpdateInstanceCounts
    /\ stLast'.err = ""

RemovalStep == StateRemoveRepository \/ ManagerRemoveRepositoryAndCleanup

-----------------------------------------------------------------------------
(* List.SetSessionPreviewSize                                              *)

\* A loop that returns at the first SetPreviewSize error.
RECURSIVE PreviewLoopStopAtError(_, _, _, _, _)
PreviewLoopStopAtError(items, i, failing, sent, err) ==
    IF i > Len(items) \/ err THEN [sent |-> sent, err |-> err]
    ELSE LET item == items[i] IN
         IF ~Started(item) \/ Paused(item)
         THEN PreviewLoopStopAtError(items, i + 1, failing, sent, err)
         ELSE PreviewLoopStopAtError(items, i + 1, failing, sent \cup {item.id},
                                     err \/ item.id \in failing)

\* The loop of SetSessionPreviewSize from item i on: sent, the instances
\* whose SetPreviewSize has been called; err, whether the joined error is
\* non-nil; failing, the instances whose SetPreviewSize returns an error.
RECURSIVE PreviewLoop(_, _, _, _, _)
PreviewLoop(items, i, failing, sent, err) ==
    IF i > Len(items) THEN [sent |-> sent, err |-> err]
    ELSE LET item == items[i] IN
         IF ~Started(item) \/ Paused(item)
         THEN PreviewLoop(items, i + 1, failing, sent, err)
         ELSE PreviewLoop(items, i + 1, failing, sent \cup {item.id},
                          err \/ item.id \in failing)

SetSessionPreviewSize(l, failing) ==
    PreviewLoop(l.items, 1, failing, {}, FALSE)

\* An instance is not started, started, or started and paused.
Lifecycles ==
    { [started |-> FALSE, paused |-> FALSE, repo |-> ""],
      [started |-> TRUE, paused |-> FALSE, repo |-> "/w/r1"],
      [started |-> TRUE, paused |-> TRUE, repo |-> "/w/r1"] }

\* The lists SetSessionPreviewSize is called on.
PreviewLists ==
    UNION { { [i \in 1..n |->
                  [NewInstance(i, f[i].started, f[i].repo)
                      EXCEPT !.paused = f[i].paused]] :
                  f \in [1..n -> Lifecycles] } : n \in 0..MaxCreated }

PreviewInit ==
    /\ \E items \in PreviewLists :
          /\ list = [NewList EXCEPT !.items = items]
          /\ nextId = Len(items)
    /\ killErr = "none"
    /\ panicked = FALSE
    /\ preview = NoPreview

ListSetSessionPreviewSize ==
    /\ \E failing \in SUBSET {list.items[i].id : i \in 1..Len(list.items)} :
         LET r == SetSessionPreviewSize(list, failing) IN
         preview' = [called |-> TRUE, sent |-> r.sent, failing |-> failing,
                     err |-> r.err]
    /\ UNCHANGED <<list, nextId, killErr, panicked, stateVars, migVars, envVars>>

ResizeInit == PreviewInit /\ StateIdle /\ MigIdle /\ EnvIdle

SpecResize == ResizeInit /\ [][ListSetSessionPreviewSize]_vars

\* The instances of the list that are started and not paused.
Eligible(l) ==
    {l.items[i].id : i \in {j \in 1..Len(l.items) :
                               l.items[j].started /\ ~l.items[j].paused}}

\* C16: SetSessionPreviewSize forwards the size to every instance that is
\* started and not paused and to no other; a failing instance does not stop
\* the batch; the error returned is non-nil exactly when a forwarded call
\* failed.
C16_PreviewSizeForwarded ==
    preview.called =>
        /\ preview.sent = Eligible(list)
        /\ preview.err <=> (preview.failing \cap Eligible(list) # {})

\* The first instance failed, the second is paused, the third was still
\* resized, and an error was returned.
C16_Witness ==
    /\ preview.called
    /\ Len(list.items) = 3
    /\ list.items[2].paused
    /\ preview.failing = {list.items[1].id}
    /\ preview.sent = {list.items[1].id, list.items[3].id}
    /\ preview.err

-----------------------------------------------------------------------------
(* State.GetRepositoriesSortedByLastAccessed                               *)

\* time.Time.Before
Before(t, u) == t < u

\* repos[j], repos[j+1] = repos[j+1], repos[j] for a 0-based j.
Swap(repos, j) ==
    [repos EXCEPT ![j + 1] = repos[j + 2], ![j + 2] = repos[j + 1]]

\* An inner loop that also swaps neighbours accessed at the same time.
RECURSIVE InnerLoopSwapEqual(_, _, _)
InnerLoopSwapEqual(repos, i, j) ==
    IF j >= Len(repos) - i - 1 THEN repos
    ELSE IF ~Before(repos[j + 2].LastAccessed, repos[j + 1].LastAccessed)
    THEN InnerLoopSwapEqual(Swap(repos, j), i, j + 1)
    ELSE InnerLoopSwapEqual(repos, i, j + 1)

\* "for j := 0; j < len(repos)-i-1; j++": one pass of the bubble sort.
RECURSIVE InnerLoop(_, _, _)
InnerLoop(repos, i, j) ==
    IF j >= Len(repos) - i - 1 THEN repos
    ELSE IF Before(repos[j + 1].LastAccessed, repos[j + 2].LastAccessed)
    THEN InnerLoop(Swap(repos, j), i, j + 1)
    ELSE InnerLoop(repos, i, j + 1)

\* "for i := 0; i < len(repos)-1; i++"
RECURSIVE OuterLoop(_, _)
OuterLoop(repos, i) ==
    IF i >= Len(repos) - 1 THEN repos
    ELSE OuterLoop(InnerLoop(repos, i, 0), i + 1)

\* The sorted copy returned, and the state afterwards: the sort works on a
\* copy of s.Repositories.
GetRepositoriesSortedByLastAccessed(s) ==
    [repos |-> OuterLoop(s.Repositories, 0), s |-> s]

\* How many times entry e occurs in repos.
Occurrences(repos, e) == Cardinality({i \in 1..Len(repos) : repos[i] = e})

\* C17: GetRepositoriesSortedByLastAccessed returns a permutation of the
\* registry ordered by LastAccessed descending, entries with equal
\* LastAccessed in their registry order, and leaves State.Repositories as
\* it is.
C17_SortedByLastAccessedStable ==
    LET r == GetRepositoriesSortedByLastAccessed(state)
        old == state.Repositories
        sorted == r.repos
    IN /\ Len(sorted) = Len(old)
       /\ \A i \in 1..Len(old) :
             Occurrences(sorted, old[i]) = Occurrences(old, old[i])
       /\ \A i, j \in 1..Len(sorted) :
             i < j => sorted[i].LastAccessed >= sorted[j].LastAccessed
       /\ \A i, j \in 1..Len(old) :
             (i < j /\ old[i].LastAccessed = old[j].LastAccessed)
                => RepoIndex(sorted, old[i].Path) < RepoIndex(sorted, old[j].Path)
       /\ r.s.Repositories = old

\* Three repositories accessed at 0, 1, 0: sorted, the second comes first
\* and the other two keep their order.
C17_Witness ==
    /\ Len(state.Repositories) = 3
    /\ state.Repositories[1].LastAccessed = 0
    /\ state.Repositories[2].LastAccessed = 1
    /\ state.Repositories[3].LastAccessed = 0
    /\ GetRepositoriesSortedByLastAccessed(state).repos =
          <<state.Repositories[2], state.Repositories[1], state.Repositories[3]>>

-----------------------------------------------------------------------------
(* ui.RepoTabs as a component of its own                                   *)

\* Paths handed to the tabs; "" is shown as "unknown".
TabPaths == ListRepos \cup {""}

\* Terminal widths handed to SetWidth: too narrow, tight, comfortable.
Widths == {0, 30, 80}

\* len() of the display names of TabPaths.
NameLen(name) == IF name = "unknown" THEN 7 ELSE 2

RepoTabsSetWidth(rt, width) == [rt EXCEPT !.width = width]

RepoTabsSelectRepo(rt, repoPath) ==
    LET i == IndexOf(rt.repos, repoPath) IN
    IF i >= 0 THEN [rt EXCEPT !.selectedIdx = i] ELSE rt

RepoTabsSetSelectedIndex(rt, idx) ==
    IF idx >= 0 /\ idx < Len(rt.repos) THEN [rt EXCEPT !.selectedIdx = idx]
    ELSE rt

GetHeight(rt) == IF ShouldShowTabs(rt) THEN 1 ELSE 0

\* The width a tab may take with n tabs in a tab bar of the given width.
MaxTabWidth(width, n) ==
    LET availableWidth == width - 8
        separatorSpace == (n - 1) * 3
    IN IF availableWidth <= separatorSpace THEN 5
       ELSE LET w == (availableWidth - separatorSpace) \div n
            IN IF w < 8 THEN 8 ELSE w

\* The name as shown in a tab: how many of its leading characters are kept
\* and whether "..." follows them.
DisplayName(repoName, maxTabWidth) ==
    LET maxNameLength == maxTabWidth - 4 IN
    IF maxNameLength > 0 /\ NameLen(repoName) > maxNameLength
    THEN IF maxNameLength <= 3
         THEN [name |-> repoName, chars |-> maxNameLength, dots |-> FALSE]
         ELSE [name |-> repoName, chars |-> maxNameLength - 3, dots |-> TRUE]
    ELSE [name |-> repoName, chars |-> NameLen(repoName), dots |-> FALSE]

\* strings.Join(tabs, separator): the pieces of the joined string in order.
RECURSIVE Join(_, _)
Join(tabs, sep) ==
    IF Len(tabs) = 0 THEN <<>>
    ELSE IF Len(tabs) = 1 THEN tabs
    ELSE <<Head(tabs), sep>> \o Join(Tail(tabs), sep)

\* The rendered tab bar as the sequence of its styled pieces; the empty
\* sequence is the empty string.  Centering and background add blanks only.
Render(rt) ==
    IF Len(rt.repos) = 0 THEN <<>>
    ELSE IF Len(rt.repos) = 1 THEN <<>>
    ELSE LET maxTabWidth == MaxTabWidth(rt.width, Len(rt.repos))
             tabs == [i \in 1..Len(rt.repoNames) |->
                        [text |-> DisplayName(rt.repoNames[i], maxTabWidth),
                         style |-> IF i - 1 = rt.selectedIdx
                                   THEN "active" ELSE "inactive"]]
         IN Join(tabs, [text |-> " | ", style |-> "separator"])

TabsAddRepo ==
    /\ \E repoPath \in TabPaths :
          list' = [list EXCEPT !.repoTabs = RepoTabsAddRepo(@, repoPath)]
    /\ UNCHANGED <<nextId, killErr, panicked, preview, stateVars, migVars, envVars>>

TabsRemoveRepo ==
    /\ \E repoPath \in TabPaths :
          list' = [list EXCEPT !.repoTabs = RepoTabsRemoveRepo(@, repoPath)]
    /\ UNCHANGED <<nextId, killErr, panicked, preview, stateVars, migVars, envVars>>

TabsNextRepo ==
    /\ list' = [list EXCEPT !.repoTabs = RepoTabsNextRepo(@)]
    /\ UNCHANGED <<nextId, killErr, panicked, preview, stateVars, migVars, envVars>>

TabsPrevRepo ==
    /\ list' = [list EXCEPT !.repoTabs = RepoTabsPrevRepo(@)]
    /\ UNCHANGED <<nextId, killErr, panicked, preview, stateVars, migVars, envVars>>

TabsSelectRepo ==
    /\ \E repoPath \in TabPaths :
          list' = [list EXCEPT !.repoTabs = RepoTabsSelectRepo(@, repoPath)]
    /\ UNCHANGED <<nextId, killErr, panicked, preview, stateVars, migVars, envVars>>

TabsSetSelectedIndex ==
    /\ \E idx \in -1..Cardinality(TabPaths) :
          list' = [list EXCEPT !.repoTabs = RepoTabsSetSelectedIndex(@, idx)]
    /\ UNCHANGED <<nextId, killErr, panicked, preview, stateVars, migVars, envVars>>

TabsSetWidth ==
    /\ \E width \in Widths :
          list' = [list EXCEPT !.repoTabs = RepoTabsSetWidth(@, width)]
    /\ UNCHANGED <<nextId, killErr, panicked, preview, stateVars, migVars, envVars>>

TabsNext ==
    \/ TabsAddRepo
    \/ TabsRemoveRepo
    \/ TabsNextRepo
    \/ TabsPrevRepo
    \/ TabsSelectRepo
    \/ TabsSetSelectedIndex
    \/ TabsSetWidth

TabsInit == ListIdle /\ StateIdle /\ MigIdle /\ EnvIdle

SpecTabs == TabsInit /\ [][TabsNext]_vars

\* C18: with n >= 1 repositories and the selected index i in range, NextRepo
\* sets the index to (i+1) mod n and PrevRepo to (i-1) mod n; with three
\* repositories PrevRepo from 0 gives 2 and NextRepo from 2 gives 0; NextRepo
\* followed by PrevRepo restores the index.
C18_NavigationWraps ==
    LET rt == list.repoTabs
        n == Len(rt.repos)
        i == rt.selectedIdx
        next == RepoTabsNextRepo(rt).selectedIdx
        prev == RepoTabsPrevRepo(rt).selectedIdx
    IN (n >= 1 /\ 0 <= i /\ i < n) =>
          /\ next = (IF i = n - 1 THEN 0 ELSE i + 1)
          /\ prev = (IF i = 0 THEN n - 1 ELSE i - 1)
          /\ (n = 3 /\ i = 0) => prev = 2
          /\ (n = 3 /\ i = 2) => next = 0
          /\ RepoTabsPrevRepo(RepoTabsNextRepo(rt)).selectedIdx = i
          /\ RepoTabsNextRepo(rt).repos = rt.repos
          /\ RepoTabsPrevRepo(rt).repos = rt.repos

\* Three repositories with the last one selected: NextRepo wraps to the
\* first, and PrevRepo from there comes back to the last.
C18_Witness ==
    /\ Len(list.repoTabs.repos) = 3
    /\ list.repoTabs.selectedIdx = 2
    /\ RepoTabsNextRepo(list.repoTabs).selectedIdx = 0
    /\ RepoTabsPrevRepo(RepoTabsNextRepo(list.repoTabs)).selectedIdx = 2

\* C19: ShouldShowTabs is true, GetHeight is 1 and Render is non-empty
\* exactly when there are at least two repositories; with none or one
\* ShouldShowTabs is false, GetHeight is 0 and Render is the empty string.
C19_TabsShownFromTwoRepos ==
    LET rt == list.repoTabs
        n == Len(rt.repos)
    IN /\ ShouldShowTabs(rt) <=> n >= 2
       /\ GetHeight(rt) = 1 <=> n >= 2
       /\ Render(rt) # <<>> <=> n >= 2
       /\ n <= 1 => /\ ~ShouldShowTabs(rt)
                    /\ GetHeight(rt) = 0
                    /\ Render(rt) = <<>>

\* Two repositories in the narrowest terminal: the bar is still one line
\* of two tabs and a separator.
C19_Witness ==
    /\ Len(list.repoTabs.repos) = 2
    /\ list.repoTabs.width = 0
    /\ GetHeight(list.repoTabs) = 1
    /\ Len(Render(list.repoTabs)) = 3

\* The entries of s other than x, in order.
Without(s, x) == SelectSeq(s, LAMBDA e : e # x)

\* C20: under AddRepo and RemoveRepo no path appears twice, AddRepo of a
\* present path changes nothing, RemoveRepo removes exactly the named path
\* and keeps the others in order, and repoNames has the length of repos with
\* entry i the display name of path i.
C20_TabsPathsUniqueAndAligned ==
    LET rt == list.repoTabs
        Aligned(t) ==
            /\ Len(t.repoNames) = Len(t.repos)
            /\ \A i \in 1..Len(t.repos) :
                  t.repoNames[i] = getRepoDisplayName(t.repos[i])
    IN /\ \A i, j \in 1..Len(rt.repos) : rt.repos[i] = rt.repos[j] => i = j
       /\ Aligned(rt)
       /\ \A p \in TabPaths :
             /\ IndexOf(rt.repos, p) >= 0 => RepoTabsAddRepo(rt, p) = rt
             /\ IndexOf(rt.repos, p) < 0 =>
                   RepoTabsAddRepo(rt, p).repos = Append(rt.repos, p)
             /\ Aligned(RepoTabsAddRepo(rt, p))
             /\ RepoTabsRemoveRepo(rt, p).repos = Without(rt.repos, p)
             /\ Aligned(RepoTabsRemoveRepo(rt, p))

\* Three tabs of which the middle one can be removed, leaving the first and
\* the last in order, while adding the first again changes nothing.
C20_Witness ==
    /\ Len(list.repoTabs.repos) = 3
    /\ list.repoTabs.repos[1] # list.repoTabs.repos[3]
    /\ RepoTabsRemoveRepo(list.repoTabs, list.repoTabs.repos[2]).repos =
          <<list.repoTabs.repos[1], list.repoTabs.repos[3]>>
    /\ RepoTabsAddRepo(list.repoTabs, list.repoTabs.repos[1]) = list.repoTabs

-----------------------------------------------------------------------------
(* SaveState and LoadState: the document on disk                           *)

\* json.MarshalIndent of a RepositoryData: the JSON object with its tags;
\* a time is written as the instant it denotes.
MarshalRepository(repo) ==
    [path |-> repo.Path, name |-> repo.Name, last_accessed |-> repo.LastAccessed,
     created_at |-> repo.CreatedAt, instance_count |-> repo.InstanceCount]

\* A marshalling that writes the registry and leaves the other fields at
\* their zero values: a partial document.
MarshalIndentRegistryOnly(s) ==
    [help_screens_seen |-> 0,
     instances |-> <<>>,
     repositories |->
         [null |-> s.RepositoriesNil,
          items |-> [i \in 1..Len(s.Repositories) |->
                        MarshalRepository(s.Repositories[i])]],
     selected_repository |-> "",
     state_version |-> s.StateVersion]

\* json.MarshalIndent(state, "", "  "): every field of State under its tag;
\* a nil Repositories slice is written as null; InstancesData is embedded
\* as the JSON value it holds.
MarshalIndent(s) ==
    [help_screens_seen |-> s.HelpScreensSeen,
     instances |-> s.InstancesData,
     repositories |->
         [null |-> s.RepositoriesNil,
          items |-> [i \in 1..Len(s.Repositories) |->
                        MarshalRepository(s.Repositories[i])]],
     selected_repository |-> s.SelectedRepository,
     state_version |-> s.StateVersion]

UnmarshalRepository(j) ==
    [Path |-> j.path, Name |-> j.name, LastAccessed |-> j.last_accessed,
     CreatedAt |-> j.created_at, InstanceCount |-> j.instance_count]

\* json.Unmarshal(data, &state) into a zero State.
Unmarshal(j) ==
    [HelpScreensSeen |-> j.help_screens_seen,
     InstancesData |-> j.instances,
     RepositoriesNil |-> j.repositories.null,
     Repositories |-> [i \in 1..Len(j.repositories.items) |->
                          UnmarshalRepository(j.repositories.items[i])],
     SelectedRepository |-> j.selected_repository,
     StateVersion |-> j.state_version]

\* The state file after a successful SaveState(s), as json.Unmarshal reads
\* it back.
WriteFile(s) == [present |-> TRUE, doc |-> Unmarshal(MarshalIndent(s))]

\* State.SaveInstances, DeleteAllInstances, SetHelpScreensSeen.
StateSaveInstances(s, instancesJSON) ==
    Outcome([s EXCEPT !.InstancesData = instancesJSON], "", TRUE, 0)

DeleteAllInstances(s) == Outcome([s EXCEPT !.InstancesData = <<>>], "", TRUE, 0)

SetHelpScreensSeen(s, seen) ==
    Outcome([s EXCEPT !.HelpScreensSeen = seen], "", TRUE, 0)

\* The repositories handed to the registry while the disk may fail.
PersistRepos ==
    {repo \in RepositoryData : repo.Path \in RealPaths /\ repo.InstanceCount = 0}

\* The state files found at start-up: none, or a document of a later
\* version that has no registry.
PersistFiles ==
    {NoDoc,
     [present |-> TRUE,
      doc |-> [HelpScreensSeen |-> 5, InstancesData |-> <<>>,
               RepositoriesNil |-> TRUE, Repositories |-> <<>>,
               SelectedRepository |-> "", StateVersion |-> 2]]}

\* The repositories on the file system: all of them valid, or all gone.
PersistFs == {{}, RealPaths}

\* LoadState has run on one of the files; the next SaveState may fail.
PersistInit ==
    /\ \E file \in PersistFiles :
          LET o == LoadState(file, "ok") IN
          /\ state = o.s
          /\ disk = IF o.save THEN WriteFile(o.s) ELSE file
          /\ stLast = [op |-> "LoadState", hit |-> FALSE, cleared |-> FALSE,
                       n |-> 0, err |-> "", saves |-> IF o.save THEN 1 ELSE 0]
    /\ fsValid \in PersistFs
    /\ failSaves = TRUE

\* A State method that undoes its change in memory when SaveState fails.
PersistRollingBack(op, o) ==
    /\ IF o.save
       THEN \E ok \in SaveOutcomes :
              /\ state' = IF ok THEN o.s ELSE state
              /\ disk' = IF ok THEN WriteFile(o.s) ELSE disk
              /\ failSaves' = (failSaves /\ ok)
              /\ stLast' = [op |-> op, hit |-> FALSE, cleared |-> FALSE,
                            n |-> o.n, err |-> IF ok THEN "" ELSE "saveerr",
                            saves |-> 1]
       ELSE /\ state' = o.s
            /\ disk' = disk
            /\ failSaves' = failSaves
            /\ stLast' = [op |-> op, hit |-> FALSE, cleared |-> FALSE,
                          n |-> o.n, err |-> o.err, saves |-> 0]
    /\ UNCHANGED <<fsValid, listVars, migVars, envVars>>

\* A State method returns on a disk that fails at most once: the state it
\* left in memory, then its SaveState call if it makes one, whose error it
\* returns.
Persist(op, o) ==
    /\ state' = o.s
    /\ IF o.save
       THEN \E ok \in SaveOutcomes :
              /\ disk' = IF ok THEN WriteFile(o.s) ELSE disk
              /\ failSaves' = (failSaves /\ ok)
              /\ stLast' = [op |-> op, hit |-> FALSE, cleared |-> FALSE,
                            n |-> o.n, err |-> IF ok THEN "" ELSE "saveerr",
                            saves |-> 1]
       ELSE /\ disk' = disk
            /\ failSaves' = failSaves
            /\ stLast' = [op |-> op, hit |-> FALSE, cleared |-> FALSE,
                          n |-> o.n, err |-> o.err, saves |-> 0]
    /\ UNCHANGED <<fsValid, listVars, migVars, envVars>>

PersistAddRepository ==
    \E repo \in PersistRepos : Persist("AddRepository", AddRepository(state, repo))

PersistRemoveRepository ==
    \E path \in RealPaths :
        Persist("RemoveRepository", RemoveRepository(state, path))

PersistUpdateRepository ==
    \E repo \in PersistRepos :
        Persist("UpdateRepository", UpdateRepository(state, repo))

PersistSetSelectedRepository ==
    \E path \in StatePaths :
        Persist("SetSelectedRepository", SetSelectedRepository(state, path))

PersistUpdateRepositoryInstanceCount ==
    \E path \in {"/r1"}, count \in 0..MaxCount :
        Persist("UpdateRepositoryInstanceCount",
                UpdateRepositoryInstanceCount(state, path, count))

PersistUpdateRepositoryLastAccessed ==
    \E path \in RealPaths, now \in Times :
        Persist("UpdateRepositoryLastAccessed",
                UpdateRepositoryLastAccessed(state, path, now))

PersistSaveInstances ==
    \E instancesJSON \in MigInstances :
        Persist("SaveInstances", StateSaveInstances(state, instancesJSON))

PersistDeleteAllInstances ==
    Persist("DeleteAllInstances", DeleteAllInstances(state))

PersistSetHelpScreensSeen ==
    \E seen \in HelpMasks :
        Persist("SetHelpScreensSeen", SetHelpScreensSeen(state, seen))

PersistCleanupInvalidRepositories ==
    Persist("CleanupInvalidRepositories", CleanupInvalidRepositories(state))

PersistCompactRepositories ==
    Persist("CompactRepositories", CompactRepositories(state))

\* Longest list of operations handed to BatchUpdateRepositories.
MaxBatch == 2

\* The func(*State) error values handed to BatchUpdateRepositories: set
\* the InstanceCount of a registered repository (an error if it is not
\* registered), set SelectedRepository, or return an error.  They write
\* the fields of the State themselves and do not call SaveState.
BatchOps ==
    {[kind |-> "count", path |-> "/r1", count |-> c] : c \in 0..MaxCount}
    \cup {[kind |-> "select", path |-> p, count |-> 0] : p \in {"", "/r2"}}
    \cup {[kind |-> "fail", path |-> "", count |-> 0]}

RECURSIVE SeqsUpTo(_, _)
SeqsUpTo(S, n) ==
    IF n = 0 THEN {<<>>}
    ELSE LET shorter == SeqsUpTo(S, n - 1)
         IN shorter \cup {Append(q, x) : q \in shorter, x \in S}

BatchLists == SeqsUpTo(BatchOps, MaxBatch)

\* op(s): the state it leaves and the error it returns.
ApplyOp(s, op) ==
    CASE op.kind = "count" ->
            LET i == RepoIndex(s.Repositories, op.path) IN
            IF i < 0 THEN [s |-> s, err |-> "notfound"]
            ELSE [s |-> [s EXCEPT !.Repositories[i + 1].InstanceCount = op.count],
                  err |-> ""]
      [] op.kind = "select" ->
            [s |-> [s EXCEPT !.SelectedRepository = op.path], err |-> ""]
      [] OTHER -> [s |-> s, err |-> "failed"]

\* A batch loop that persists after each operation and again at the end.
RECURSIVE BatchLoopSavingEach(_, _, _, _)
BatchLoopSavingEach(s, operations, i, writes) ==
    IF i >= Len(operations) THEN [s |-> s, err |-> "", writes |-> Append(writes, s)]
    ELSE LET r == ApplyOp(s, operations[i + 1]) IN
         IF r.err # "" THEN [s |-> r.s, err |-> r.err, writes |-> writes]
         ELSE BatchLoopSavingEach(r.s, operations, i + 1, Append(writes, r.s))

\* "for _, op := range operations { if err := op(s); err != nil { return
\* err } }; return SaveState(s)": the state left in memory, the error of
\* the failing operation, and the documents handed to SaveState in order.
RECURSIVE BatchLoop(_, _, _, _)
BatchLoop(s, operations, i, writes) ==
    IF i >= Len(operations) THEN [s |-> s, err |-> "", writes |-> Append(writes, s)]
    ELSE LET r == ApplyOp(s, operations[i + 1]) IN
         IF r.err # "" THEN [s |-> r.s, err |-> r.err, writes |-> writes]
         ELSE BatchLoop(r.s, operations, i + 1, writes)

BatchUpdateRepositories(s, operations) == BatchLoop(s, operations, 0, <<>>)

\* BatchUpdateRepositories returns; only its last write can be the one
\* that fails.
StateBatchUpdateRepositories ==
    /\ \E operations \in BatchLists :
          LET r == BatchUpdateRepositories(state, operations) IN
          /\ state' = r.s
          /\ IF r.writes # <<>>
             THEN \E ok \in SaveOutcomes :
                    /\ disk' = IF ok THEN WriteFile(r.writes[Len(r.writes)])
                               ELSE IF Len(r.writes) > 1
                               THEN WriteFile(r.writes[Len(r.writes) - 1])
                               ELSE disk
                    /\ failSaves' = (failSaves /\ ok)
                    /\ stLast' = [op |-> "BatchUpdateRepositories",
                                  hit |-> FALSE, cleared |-> FALSE,
                                  n |-> Len(operations),
                                  err |-> IF ok THEN "" ELSE "saveerr",
                                  saves |-> Len(r.writes)]
             ELSE /\ disk' = disk
                  /\ failSaves' = failSaves
                  /\ stLast' = [op |-> "BatchUpdateRepositories",
                                hit |-> FALSE, cleared |-> FALSE,
                                n |-> Len(operations), err |-> r.err,
                                saves |-> 0]
    /\ UNCHANGED <<fsValid, listVars, migVars, envVars>>

\* A loaded document with any registry of repositories that exist; the
\* next SaveState may fail.
BatchInit ==
    /\ state \in {[DefaultState EXCEPT !.Repositories = r] :
                     r \in {x \in Registries :
                              \A k \in 1..Len(x) : x[k].Path \in RealPaths}}
    /\ disk = WriteFile(state)
    /\ fsValid = {}
    /\ stLast = [op |-> "LoadState", hit |-> FALSE, cleared |-> FALSE,
                 n |-> 0, err |-> "", saves |-> 0]
    /\ failSaves = TRUE

CoalescingInit == ListIdle /\ BatchInit /\ MigIdle /\ EnvIdle

SpecBatch == CoalescingInit /\ [][StateBatchUpdateRepositories]_vars

PersistFsChange ==
    /\ \E valid \in PersistFs : fsValid' = valid
    /\ UNCHANGED <<state, disk, stLast, failSaves, listVars, migVars, envVars>>

PersistNext ==
    \/ PersistAddRepository
    \/ PersistRemoveRepository
    \/ PersistUpdateRepository
    \/ PersistSetSelectedRepository
    \/ PersistUpdateRepositoryInstanceCount
    \/ PersistUpdateRepositoryLastAccessed
    \/ PersistSaveInstances
    \/ PersistDeleteAllInstances
    \/ PersistSetHelpScreensSeen
    \/ PersistCleanupInvalidRepositories
    \/ PersistCompactRepositories
    \/ PersistFsChange

DurableInit == ListIdle /\ PersistInit /\ MigIdle /\ EnvIdle

SpecPersist == DurableInit /\ [][PersistNext]_vars

\* The State methods that change the document.
MutatingOps ==
    {"AddRepository", "RemoveRepository", "UpdateRepository",
     "SetSelectedRepository", "UpdateRepositoryInstanceCount",
     "UpdateRepositoryLastAccessed", "SaveInstances", "DeleteAllInstances",
     "SetHelpScreensSeen", "CleanupInvalidRepositories", "CompactRepositories"}

OpsOfKind(operations, k) ==
    {i \in 1..Len(operations) : operations[i].kind = k}

\* Every operation of the list succeeds on s: none is the failing one and
\* every count is set on a registered repository.
AllSucceed(s, operations) ==
    \A i \in 1..Len(operations) :
        /\ operations[i].kind # "fail"
        /\ operations[i].kind = "count" =>
              RepoIndex(s.Repositories, operations[i].path) >= 0

Last(S) == CHOOSE i \in S : \A j \in S : j <= i

\* C22: when every operation handed to BatchUpdateRepositories succeeds,
\* all of them are applied in order (each field holds what the last
\* operation writing it wrote, the other fields are untouched) and the
\* document is handed to SaveState exactly once, after the last operation;
\* a batch that returned nil has left the disk equal to the memory.
C22_BatchPersistsOnce ==
    /\ \A operations \in BatchLists :
          AllSucceed(state, operations) =>
             LET r == BatchUpdateRepositories(state, operations)
                 selects == OpsOfKind(operations, "select")
                 counts == OpsOfKind(operations, "count")
                 i == RepoIndex(state.Repositories, "/r1")
             IN /\ r.err = ""
                /\ r.writes = <<r.s>>
                /\ r.s.SelectedRepository =
                      (IF selects = {} THEN state.SelectedRepository
                       ELSE operations[Last(selects)].path)
                /\ Len(r.s.Repositories) = Len(state.Repositories)
                /\ \A k \in 1..Len(state.Repositories) :
                      r.s.Repositories[k] =
                         (IF k = i + 1 /\ counts # {}
                          THEN [state.Repositories[k] EXCEPT
                                  !.InstanceCount = operations[Last(counts)].count]
                          ELSE state.Repositories[k])
                /\ r.s.HelpScreensSeen = state.HelpScreensSeen
                /\ r.s.InstancesData = state.InstancesData
                /\ r.s.StateVersion = state.StateVersion
    /\ (stLast.op = "BatchUpdateRepositories" /\ stLast.err = "")
          => /\ stLast.saves = 1
             /\ LoadState(disk, "ok").s = state

\* A batch of two operations has returned nil: it set the count of /r1
\* and selected /r2, and the disk holds both.
C22_Witness ==
    /\ stLast.op = "BatchUpdateRepositories" /\ stLast.err = ""
    /\ stLast.n = 2 /\ stLast.saves = 1
    /\ state.SelectedRepository = "/r2"
    /\ RepoIndex(state.Repositories, "/r1") >= 0
    /\ state.Repositories[RepoIndex(state.Repositories, "/r1") + 1].InstanceCount = 1
    /\ disk.present /\ disk.doc = state

-----------------------------------------------------------------------------
(* FindRepositoryForPath: walking up to the repository root                *)

\* Deepest directory a walk starts from.
MaxDepth == 3

DirNames == {"a", "b"}

\* Absolute, cleaned paths as filepath.Abs returns them: the sequence of
\* their directory names; <<>> is the filesystem root.
AbsPaths == SeqsUpTo(DirNames, MaxDepth)

\* The directories that may hold a .git entry.
MarkerDirs == {<<>>, <<"a">>, <<"a", "a">>, <<"a", "b">>}

\* A filepath.Dir that does not go above a top-level directory.
FilepathDirBelowRoot(p) ==
    IF Len(p) <= 1 THEN p ELSE SubSeq(p, 1, Len(p) - 1)

\* filepath.Dir of an absolute, cleaned path: its parent; the root is its
\* own parent.
FilepathDir(p) ==
    IF p = <<>> THEN p ELSE SubSeq(p, 1, Len(p) - 1)

\* The call FindRepositoryForPath(path) at its first iteration, on a file
\* system where os.Stat succeeds on dir/.git exactly for dir in gitDirs.
WalkInit ==
    /\ \E path \in AbsPaths, gitDirs \in SUBSET MarkerDirs :
          walk = [phase |-> "running", path |-> path, gitDirs |-> gitDirs,
                  currentPath |-> path, probes |-> <<>>,
                  found |-> FALSE, result |-> <<>>]
    /\ tmux = NoTmux
    /\ procs = NoProcs

\* One iteration of the loop: probe currentPath, return it if it holds the
\* marker, otherwise go to the parent, or leave the loop with the error at
\* the root.
FindStep ==
    /\ walk.phase = "running"
    /\ LET probed == [walk EXCEPT !.probes = Append(@, walk.currentPath)]
           parentPath == FilepathDir(walk.currentPath)
       IN walk' = IF walk.currentPath \in walk.gitDirs
                  THEN [probed EXCEPT !.phase = "done", !.found = TRUE,
                                      !.result = walk.currentPath]
                  ELSE IF parentPath = walk.currentPath
                  THEN [probed EXCEPT !.phase = "done"]
                  ELSE [probed EXCEPT !.currentPath = parentPath]
    /\ UNCHANGED <<tmux, procs, listVars, stateVars, migVars>>

WalkingInit == ListIdle /\ StateIdle /\ MigIdle /\ WalkInit

\* The caller waits for the call: its loop keeps running.
SpecWalk == WalkingInit /\ [][FindStep]_vars /\ WF_vars(FindStep)

\* The path itself and its ancestors up to the root.
Ancestors(path) == {SubSeq(path, 1, n) : n \in 0..Len(path)}

\* The probes so far are the path, its parent, and so on in order, none
\* twice; a finished walk returns the deepest of these that holds the
\* marker, or the error if none does.
WalkSafe ==
    /\ Len(walk.probes) <= Len(walk.path) + 1
    /\ \A i \in 1..Len(walk.probes) :
          walk.probes[i] = SubSeq(walk.path, 1, Len(walk.path) - i + 1)
    /\ walk.phase = "done" =>
          LET holding == Ancestors(walk.path) \cap walk.gitDirs IN
          /\ walk.found <=> holding # {}
          /\ walk.found =>
                /\ walk.result \in holding
                /\ \A d \in holding : Len(d) <= Len(walk.result)
          /\ ~walk.found => Len(walk.probes) = Len(walk.path) + 1

\* C23: FindRepositoryForPath terminates for every path; it probes the
\* path and then each parent at most once, stops at the root, returns the
\* nearest directory holding the .git marker and an error when none up to
\* the root holds it.
C23_WalkTerminatesAtNearestRepo == []WalkSafe /\ <>(walk.phase = "done")

\* A walk from a directory three levels down that found the marker only
\* at the root, after probing all four directories.
C23_Witness ==
    /\ walk.phase = "done"
    /\ Len(walk.path) = 3
    /\ Len(walk.probes) = 4
    /\ walk.found /\ walk.result = <<>>

-----------------------------------------------------------------------------
(* Attaching to the tmux session of an instance                            *)

\* Number of started instances, each with its own tmux session.
NumSessions == 2

NoClient == [session |-> 0, window |-> "none"]

\* TmuxSession.Start: "tmux new-session -d": a session whose only window
\* is window 0, which is its active window.
NewSession == [windows |-> {"0"}, active |-> "0"]

\* What tmux makes of the target of attach-session: the named window, or
\* for a bare session name the window that was last active.
TargetWindow(session, target) ==
    IF target = "" THEN session.active ELSE target

\* "tmux attach-session -t session_name:target": the client shows the
\* target window, which becomes the active window of the session.
AttachSession(t, i, target) ==
    LET w == TargetWindow(t.sessions[i], target) IN
    [t EXCEPT !.sessions[i].active = w,
              !.client = [session |-> i, window |-> w]]

\* AttachToWindow(window) of the session of instance i.
AttachToWindow(t, i, window) == AttachSession(t, i, window)

\* An Attach that names the session and no window.
AttachBareSession(t, i) == AttachSession(t, i, "")

\* TmuxSession.Attach
Attach(t, i) == AttachToWindow(t, i, "0")

\* TmuxSession.CaptureTerminalContent: "tmux new-window -n terminal" if
\* the window is absent, which makes it the active window; fails, creating
\* nothing, when tmux does.
CaptureTerminalContent(t, i, ok) ==
    IF "terminal" \in t.sessions[i].windows THEN [t |-> t, err |-> FALSE]
    ELSE IF ok
    THEN [t |-> [t EXCEPT !.sessions[i] =
                            [windows |-> {"0", "terminal"}, active |-> "terminal"]],
          err |-> FALSE]
    ELSE [t |-> t, err |-> TRUE]

\* Instance.AttachToTerminal: ensure the terminal window exists, then
\* attach to it; the error, and no attach, if it could not be ensured.
AttachToTerminal(t, i, ok) ==
    LET c == CaptureTerminalContent(t, i, ok) IN
    IF c.err THEN c
    ELSE [t |-> AttachToWindow(c.t, i, "terminal"), err |-> FALSE]

\* What the last operation was, on which instance, what its session
\* looked like before, and whether it returned an error.
Did(op, i, before, err) ==
    [op |-> op, inst |-> i, before |-> before, err |-> err]

TmuxInit ==
    /\ tmux = [sessions |-> [i \in 1..NumSessions |-> NewSession],
               client |-> NoClient,
               last |-> Did("Start", 0, NewSession, FALSE)]
    /\ walk = NoWalk
    /\ procs = NoProcs

\* List.Attach on the selected instance; the caller is suspended until the
\* client detaches, so no attach starts while one is in progress.
ListAttach ==
    /\ tmux.client = NoClient
    /\ \E i \in 1..NumSessions :
          tmux' = [Attach(tmux, i) EXCEPT
                     !.last = Did("Attach", i, tmux.sessions[i], FALSE)]
    /\ UNCHANGED <<walk, procs, listVars, stateVars, migVars>>

ListAttachToTerminal ==
    /\ tmux.client = NoClient
    /\ \E i \in 1..NumSessions, ok \in BOOLEAN :
          LET r == AttachToTerminal(tmux, i, ok) IN
          tmux' = [r.t EXCEPT
                     !.last = Did("AttachToTerminal", i, tmux.sessions[i], r.err)]
    /\ UNCHANGED <<walk, procs, listVars, stateVars, migVars>>

\* The preview of the terminal tab captures the terminal window.
PreviewTerminal ==
    /\ \E i \in 1..NumSessions, ok \in BOOLEAN :
          LET r == CaptureTerminalContent(tmux, i, ok) IN
          tmux' = [r.t EXCEPT
                     !.last = Did("CaptureTerminalContent", i,
                                  tmux.sessions[i], r.err)]
    /\ UNCHANGED <<walk, procs, listVars, stateVars, migVars>>

\* The user detaches the client; the attach process exits.
Detach ==
    /\ tmux.client # NoClient
    /\ tmux' = [tmux EXCEPT
                  !.client = NoClient,
                  !.last = Did("Detach", tmux.client.session,
                               tmux.sessions[tmux.client.session], FALSE)]
    /\ UNCHANGED <<walk, procs, listVars, stateVars, migVars>>

\* The attached user switches to another window of the session.
SelectWindow ==
    /\ tmux.client # NoClient
    /\ \E w \in tmux.sessions[tmux.client.session].windows :
          tmux' = [tmux EXCEPT
                     !.sessions[tmux.client.session].active = w,
                     !.client.window = w,
                     !.last = Did("SelectWindow", tmux.client.session,
                                  tmux.sessions[tmux.client.session], FALSE)]
    /\ UNCHANGED <<walk, procs, listVars, stateVars, migVars>>

TmuxNext ==
    \/ ListAttach
    \/ ListAttachToTerminal
    \/ PreviewTerminal
    \/ Detach
    \/ SelectWindow

AttachInit == ListIdle /\ StateIdle /\ MigIdle /\ TmuxInit

SpecAttach == AttachInit /\ [][TmuxNext]_vars

\* C24: Attach puts the client on window 0 of the instance's session and
\* AttachToTerminal on the window named terminal, whichever window was
\* active before; AttachToTerminal has made sure the terminal window
\* exists, and attaches nowhere if it could not.
C24_AttachTargetsExplicitWindow ==
    /\ tmux.last.op = "Attach" =>
          tmux.client = [session |-> tmux.last.inst, window |-> "0"]
    /\ (tmux.last.op = "AttachToTerminal" /\ ~tmux.last.err) =>
          /\ "terminal" \in tmux.sessions[tmux.last.inst].windows
          /\ tmux.client = [session |-> tmux.last.inst, window |-> "terminal"]
    /\ (tmux.last.op = "AttachToTerminal" /\ tmux.last.err) =>
          /\ tmux.client = NoClient
          /\ "terminal" \notin tmux.last.before.windows
    /\ tmux.client # NoClient =>
          tmux.client.window \in tmux.sessions[tmux.client.session].windows

\* Attach on a session whose terminal window existed and was the last
\* active one: the client is on window 0.
C24_Witness ==
    /\ tmux.last.op = "Attach"
    /\ tmux.last.before = [windows |-> {"0", "terminal"}, active |-> "terminal"]
    /\ tmux.client = [session |-> tmux.last.inst, window |-> "0"]

-----------------------------------------------------------------------------
(* Stored records that cannot be rebuilt; failing writes                   *)

\* C25: a stored record that cannot be rebuilt does not abort
\* CleanupOrphanedInstances: after the pass no record that can be rebuilt
\* and belongs to an unregistered repository is left in the stored list.
C25_CleanupBestEffortPerRecord ==
    stLast.op = "CleanupOrphanedInstances" =>
        \A i \in 1..Len(state.InstancesData) :
            state.InstancesData[i].Restorable
                => ~Orphan(state.InstancesData[i], state.Repositories)

\* C26: when SaveState fails in AddRepository, RemoveRepository,
\* SetSelectedRepository or SaveInstances, the state in memory holds the
\* change after the call and the document on disk is the one from before.
C26_FailedSaveKeepsMemoryChange ==
    [][stLast'.err = "saveerr" =>
         /\ disk' = disk
         /\ \A repo \in PersistRepos :
               Persist("AddRepository", AddRepository(state, repo)) =>
                  /\ RepoIndex(state'.Repositories, repo.Path) >= 0
                  /\ state'.Repositories[RepoIndex(state'.Repositories,
                                                   repo.Path) + 1] = repo
         /\ \A path \in RealPaths :
               Persist("RemoveRepository", RemoveRepository(state, path)) =>
                  /\ RepoIndex(state.Repositories, path) >= 0
                  /\ RepoIndex(state'.Repositories, path) < 0
                  /\ state.SelectedRepository = path
                        => state'.SelectedRepository = ""
         /\ \A path \in StatePaths :
               Persist("SetSelectedRepository",
                       SetSelectedRepository(state, path)) =>
                  state'.SelectedRepository = path
         /\ \A instancesJSON \in MigInstances :
               Persist("SaveInstances",
                       StateSaveInstances(state, instancesJSON)) =>
                  state'.InstancesData = instancesJSON]_vars

\* AddRepository has returned the error of SaveState: the repository is
\* registered in memory, and the file still holds the empty registry.
C26_Witness ==
    /\ stLast.op = "AddRepository" /\ stLast.err = "saveerr"
    /\ Len(state.Repositories) = 1
    /\ disk.present /\ disk.doc.Repositories = <<>>

-----------------------------------------------------------------------------
(* Storage.DeleteInstance and UpdateInstance called concurrently           *)

\* Number of Storage calls in progress at once.
NumWriters == 2

\* A DeleteInstance loop that stops copying at the first instance titled
\* title and so loses the ones behind it.
WithoutTitleTruncating(instances, title) ==
    LET hits == {i \in 1..Len(instances) : ToInstanceData(instances[i]).Title = title}
    IN IF hits = {} THEN instances
       ELSE SubSeq(instances, 1, (CHOOSE i \in hits : \A j \in hits : i <= j) - 1)

\* The loop of DeleteInstance: the loaded instances but those titled title.
WithoutTitle(instances, title) ==
    SelectSeq(instances, LAMBDA inst : ToInstanceData(inst).Title # title)

\* The 0-based position of the first instance titled title, -1 if none.
RECURSIVE TitleIndexFrom(_, _, _)
TitleIndexFrom(instances, title, i) ==
    IF i >= Len(instances) THEN -1
    ELSE IF ToInstanceData(instances[i + 1]).Title = title THEN i
    ELSE TitleIndexFrom(instances, title, i + 1)

\* The part of a call before its SaveInstances: the error it returns
\* there, or the instances it is going to save.
Prepare(s, call) ==
    LET loaded == LoadInstances(s) IN
    IF loaded.err THEN [err |-> "loaderr", instances |-> <<>>]
    ELSE LET i == TitleIndexFrom(loaded.instances, call.title, 0) IN
         IF i < 0 THEN [err |-> "notfound", instances |-> <<>>]
         ELSE IF call.op = "DeleteInstance"
         THEN [err |-> "", instances |-> WithoutTitle(loaded.instances, call.title)]
         ELSE [err |-> "",
               instances |-> [loaded.instances EXCEPT ![i + 1] = call.instance]]

\* Storage.DeleteInstance(title) and Storage.UpdateInstance(instance) run
\* from beginning to end on s: the state they leave.
RunCall(s, call) ==
    LET r == Prepare(s, call) IN
    IF r.err # "" THEN s ELSE SaveInstances(s, r.instances).s

\* The calls issued: delete the instance with a title, or replace it by an
\* instance of the same title that has moved to repository /r2.
StorageCalls ==
    {[op |-> "DeleteInstance", title |-> t, instance |-> <<>>] : t \in 1..MaxStored}
    \cup {[op |-> "UpdateInstance", title |-> t,
           instance |-> [data |-> [Title |-> t, RepositoryPath |-> "/r2",
                                   Restorable |-> TRUE],
                         started |-> TRUE]] : t \in 1..MaxStored}

\* NumWriters calls have been issued on a loaded document and none has
\* started.
WritersInit ==
    /\ state \in {[DefaultState EXCEPT !.InstancesData = l] : l \in StoredLists}
    /\ disk = WriteFile(state)
    /\ fsValid = {}
    /\ stLast = [op |-> "LoadState", hit |-> FALSE, cleared |-> FALSE,
                 n |-> 0, err |-> "", saves |-> 0]
    /\ failSaves = FALSE
    /\ \E calls \in [1..NumWriters -> StorageCalls] :
          procs = [start |-> state,
                   run |-> [p \in 1..NumWriters |->
                              [call |-> calls[p], pc |-> "load", err |-> "",
                               instances |-> <<>>]]]
    /\ walk = NoWalk
    /\ tmux = NoTmux

\* Call p reads the stored instances and works out what to save, or
\* returns its error.
CallLoad(p) ==
    /\ procs.run[p].pc = "load"
    /\ LET r == Prepare(state, procs.run[p].call) IN
       procs' = [procs EXCEPT !.run[p].pc = IF r.err # "" THEN "done" ELSE "save",
                              !.run[p].err = r.err,
                              !.run[p].instances = r.instances]
    /\ UNCHANGED <<walk, tmux, listVars, stateVars, migVars>>

\* Call p saves the instances it worked out and returns.
CallSave(p) ==
    /\ procs.run[p].pc = "save"
    /\ LET o == SaveInstances(state, procs.run[p].instances) IN
       /\ state' = o.s
       /\ disk' = WriteFile(o.s)
       /\ stLast' = [op |-> procs.run[p].call.op, hit |-> FALSE,
                     cleared |-> FALSE, n |-> 0, err |-> "", saves |-> 1]
    /\ procs' = [procs EXCEPT !.run[p].pc = "done"]
    /\ UNCHANGED <<fsValid, failSaves, walk, tmux, listVars, migVars>>

WritersNext == \E p \in 1..NumWriters : CallLoad(p) \/ CallSave(p)

ConcurrentInit == ListIdle /\ MigIdle /\ WritersInit

SpecWriters == ConcurrentInit /\ [][WritersNext]_vars

\* The states the calls leave when run one after the other, in any order.
RECURSIVE Sequential(_, _)
Sequential(s, ps) ==
    IF ps = {} THEN {s}
    ELSE UNION { Sequential(RunCall(s, procs.run[p].call), ps \ {p}) : p \in ps }

\* C27: concurrent Storage calls do not interleave their read-modify-write
\* sections: once all have returned, the stored list is what one of the
\* sequential orders of the calls leaves, so no update is lost.
C27_WritersSerialized ==
    (\A p \in 1..NumWriters : procs.run[p].pc = "done")
        => state.InstancesData \in
              {s.InstancesData : s \in Sequential(procs.start, 1..NumWriters)}

-----------------------------------------------------------------------------
(* Selection and navigation in ui.List                                     *)

\* C28: when List.Kill removes the instance at the last position of a list
\* of two or more items, the selection afterwards is the item that is now
\* last.
C28_KillLastSelectsPrevious ==
    [][(/\ ListKill
        /\ Len(list.items) >= 2
        /\ list.selectedIdx = Len(list.items) - 1
        /\ list'.items = SubSeq(list.items, 1, Len(list.items) - 1))
         => list'.selectedIdx = Len(list'.items) - 1]_vars

\* List.SetSelectedInstance called with an index that is not negative.
ListSelectNonNegative ==
    /\ ~panicked
    /\ \E idx \in 0..MaxCreated : list' = SetSelectedInstance(list, idx)
    /\ UNCHANGED <<nextId, killErr, panicked, preview, stateVars, migVars, envVars>>

NavigateNext ==
    \/ AddKillNext
    \/ ListUp
    \/ ListDown
    \/ ListNextRepo
    \/ ListPrevRepo
    \/ ListSelectNonNegative

SpecNavigate == AddKillInit /\ [][NavigateNext]_vars

\* C29: after any sequence of AddInstance with its finalizer, Kill, Up,
\* Down, NextRepo, PrevRepo and SetSelectedInstance with a non-negative
\* index, no operation has indexed outside the list, and whenever the list
\* is non-empty the selection index is at least 0 and less than the number
\* of items.
C29_SelectionIndexInRange ==
    /\ ~panicked
    /\ (AllRegistered(list) /\ Len(list.items) > 0) => IndexInRange(list)

\* C30: with the selected instance at position k of a filtered view of n
\* items, Down selects the filtered item at k+1 if k < n-1 and Up the one
\* at k-1 if k > 0, and otherwise they change nothing; the new index is the
\* item's position in the whole list.  If the selected instance is not in
\* the view both select the first filtered item; with an empty view both
\* change nothing.
C30_UpDownWithinFilteredView ==
    LET filteredItems == GetFilteredInstances(list)
        n == Len(filteredItems)
        up == Up(list)
        down == Down(list)
        Selects(l, item) ==
            /\ l = [list EXCEPT !.selectedIdx = IndexOf(list.items, item)]
            /\ l.items[l.selectedIdx + 1] = item
    IN /\ n = 0 => (up = list /\ down = list)
       /\ (n > 0 /\ IndexInRange(list)) =>
             LET k == IndexOf(filteredItems, list.items[list.selectedIdx + 1]) IN
             /\ k = -1 => (Selects(up, filteredItems[1])
                             /\ Selects(down, filteredItems[1]))
             /\ (k >= 0 /\ k < n - 1) => Selects(down, filteredItems[k + 2])
             /\ k = n - 1 => down = list
             /\ k > 0 => Selects(up, filteredItems[k])
             /\ k = 0 => up = list

\* Three started instances of which the first and the last are in the
\* selected repository: Down from the first skips the second, and Up from
\* there comes back.
C30_Witness ==
    /\ ~panicked
    /\ Len(list.items) = 3
    /\ list.selectedIdx = 0
    /\ GetFilteredInstances(list) = <<list.items[1], list.items[3]>>
    /\ Down(list).selectedIdx = 2
    /\ Up(Down(list)).selectedIdx = 0

-----------------------------------------------------------------------------
(* Selection after a change of the filtered view                           *)

\* The selection of after is a member of its filtered view, and it is the
\* selection of before if that one is visible in the view of after and the
\* first instance of the view otherwise.
Revalidated(before, after) ==
    LET f == GetFilteredInstances(after) IN
    Len(f) > 0 =>
       /\ IndexInRange(after)
       /\ IndexOf(f, after.items[after.selectedIdx + 1]) >= 0
       /\ after.selectedIdx =
             (IF IndexInRange(before)
                 /\ IndexOf(f, after.items[before.selectedIdx + 1]) >= 0
              THEN before.selectedIdx
              ELSE IndexOf(after.items, f[1]))

\* The list as the finalizer of items[i] leaves it.
Finalized(l, i) ==
    addRepo([l EXCEPT !.items[i].fin = TRUE], GetRepoPath(l.items[i]))

\* C31: after List.NextRepo or List.PrevRepo, and after a finalizer has
\* registered a repository, a non-empty filtered view contains the selected
\* instance: the selection is kept if still visible and is the first
\* instance of the view otherwise.
C31_SelectionRevalidated ==
    ~panicked =>
       /\ Revalidated(list, NextRepo(list))
       /\ Revalidated(list, PrevRepo(list))
       /\ \A i \in 1..Len(list.items) :
             (~list.items[i].fin /\ ~GetGitWorktreeErr(list.items[i]))
                => Revalidated(list, Finalized(list, i))

\* Two tabs and the selection on an instance of the first repository:
\* NextRepo hides it and the selection moves to the first instance of the
\* second repository, which is not the first item of the list.
C31_Witness ==
    /\ ~panicked
    /\ ShouldShowTabs(list.repoTabs)
    /\ IndexInRange(list)
    /\ list.selectedIdx = 0
    /\ LET n == NextRepo(list) IN
       /\ IndexOf(GetFilteredInstances(n), list.items[1]) = -1
       /\ n.selectedIdx > 0
       /\ n.selectedIdx = IndexOf(n.items, GetFilteredInstances(n)[1])

-----------------------------------------------------------------------------
(* BatchUpdateRepositories: all or nothing                                 *)

\* C32: BatchUpdateRepositories is atomic: when one of its operations
\* returns an error, the State in memory and the document on disk are both
\* as they were before the call; when all succeed and the save succeeds,
\* the disk holds the state with all their effects.
C32_BatchAllOrNothing ==
    [][StateBatchUpdateRepositories =>
          /\ stLast'.err \notin {"", "saveerr"} => (state' = state /\ disk' = disk)
          /\ stLast'.err = "" => LoadState(disk', "ok").s = state']_vars

-----------------------------------------------------------------------------
(* LoadState: the migrated document on disk                                *)

\* C33: LoadState on a version-0 document saves the migrated document:
\* when it returns, the document on disk has state_version 1 and equals
\* the state returned.
C33_MigratedDocumentSaved ==
    [][(LoadCall("ok") /\ disk.present /\ Parses(disk) /\ disk.doc.StateVersion = 0)
          => /\ state'.StateVersion = 1
             /\ disk'.present
             /\ disk'.doc.StateVersion = 1
             /\ disk'.doc = state']_vars

-----------------------------------------------------------------------------
(* CompactRepositories: what remains                                       *)

-----------------------------------------------------------------------------
(* SetSelectedInstance and its bounds                                      *)

\* C35: List.SetSelectedInstance(idx) changes nothing when idx is out of
\* bounds for the list (negative, or at least the number of items) and
\* sets the selection index to idx, and nothing else, when idx is in
\* bounds.
C35_SetSelectedInstanceBoundsChecked ==
    \A idx \in -1..MaxCreated :
       LET after == SetSelectedInstance(list, idx) IN
       IF idx < 0 \/ idx >= Len(list.items)
       THEN after = list
       ELSE after = [list EXCEPT !.selectedIdx = idx]

-----------------------------------------------------------------------------
(* Storage.DeleteInstance and Storage.UpdateInstance by title              *)

\* The instances handed to UpdateInstance: titled as a stored record may
\* be, moved to repository /r2, started or not.
UpdateInstances ==
    {[data |-> [Title |-> t, RepositoryPath |-> "/r2", Restorable |-> TRUE],
      started |-> b] : t \in 1..MaxStored, b \in BOOLEAN}

\* A call of Storage.DeleteInstance or Storage.UpdateInstance from
\* beginning to end; State.SaveInstances writes the file.
StorageCall(call) ==
    LET r == Prepare(state, call) IN
    /\ IF r.err # ""
       THEN /\ UNCHANGED <<state, disk>>
            /\ stLast' = [op |-> call.op, hit |-> FALSE, cleared |-> FALSE,
                          n |-> call.title, err |-> r.err, saves |-> 0]
       ELSE /\ state' = SaveInstances(state, r.instances).s
            /\ disk' = WriteFile(state')
            /\ stLast' = [op |-> call.op, hit |-> TRUE, cleared |-> FALSE,
                          n |-> call.title, err |-> "", saves |-> 1]
    /\ UNCHANGED <<fsValid, failSaves, listVars, migVars, envVars>>

StorageDeleteInstance ==
    \E title \in 1..MaxStored :
       StorageCall([op |-> "DeleteInstance", title |-> title, instance |-> <<>>])

StorageUpdateInstance ==
    \E instance \in UpdateInstances :
       StorageCall([op |-> "UpdateInstance", title |-> instance.data.Title,
                    instance |-> instance])

TitlesNext == StorageDeleteInstance \/ StorageUpdateInstance

\* A loaded document with any stored instance records.
TitlesInit ==
    /\ state \in {[DefaultState EXCEPT !.InstancesData = l] : l \in StoredLists}
    /\ disk = WriteFile(state)
    /\ fsValid = {}
    /\ stLast = [op |-> "LoadState", hit |-> FALSE, cleared |-> FALSE,
                 n |-> 0, err |-> "", saves |-> 0]
    /\ failSaves = FALSE

ByTitleInit == ListIdle /\ TitlesInit /\ MigIdle /\ EnvIdle

SpecTitles == ByTitleInit /\ [][TitlesNext]_vars

\* What a call is claimed to do to the stored records data: the records
\* left and the error returned.
ByTitle(data, call) ==
    LET hits == {i \in 1..Len(data) : data[i].Title = call.title} IN
    IF hits = {} THEN [err |-> "notfound", data |-> data]
    ELSE IF call.op = "DeleteInstance"
    THEN [err |-> "", data |-> SelectSeq(data, LAMBDA d : d.Title # call.title)]
    ELSE [err |-> "",
          data |-> [i \in 1..Len(data) |->
                       IF i \in hits THEN ToInstanceData(call.instance)
                       ELSE data[i]]]

AllCalls ==
    {[op |-> "DeleteInstance", title |-> t, instance |-> <<>>] : t \in 1..MaxStored}
    \cup {[op |-> "UpdateInstance", title |-> i.data.Title, instance |-> i] :
             i \in UpdateInstances}

\* The call runs as claimed on the stored records of the state.
AsClaimed(call) ==
    LET r == Prepare(state, call)
        c == ByTitle(state.InstancesData, call)
    IN /\ r.err = c.err
       /\ RunCall(state, call).InstancesData = c.data
       /\ r.err # "" => RunCall(state, call) = state

-----------------------------------------------------------------------------
(* RepoTabs: removing a tab that is not selected                           *)

\* C37: RepoTabs.RemoveRepo of a repository other than the selected one
\* leaves the selected repository unchanged: GetSelectedRepo returns the
\* same path before and after.
C37_RemoveOtherKeepsSelectedRepo ==
    \A repoPath \in TabPaths :
       repoPath # GetSelectedRepo(list.repoTabs)
          => GetSelectedRepo(RepoTabsRemoveRepo(list.repoTabs, repoPath))
                = GetSelectedRepo(list.repoTabs)

-----------------------------------------------------------------------------
(* RepoTabs: the selected index under all operations                       *)

\* RepoTabs.SetRepos: copies the paths, derives the names, and resets the
\* selection "if len(rt.repos) > 0".
RepoTabsSetRepos(rt, repos) ==
    [rt EXCEPT !.repos = repos,
               !.repoNames = [i \in 1..Len(repos) |-> getRepoDisplayName(repos[i])],
               !.selectedIdx = IF Len(repos) > 0 THEN 0 ELSE @]

\* The lists handed to SetRepos: none, one or two repositories.
RepoLists ==
    {<<>>} \cup {<<p>> : p \in TabPaths}
           \cup {<<p, q>> : p \in TabPaths, q \in TabPaths}

TabsSetRepos ==
    /\ \E repos \in RepoLists :
          list' = [list EXCEPT !.repoTabs = RepoTabsSetRepos(@, repos)]
    /\ UNCHANGED <<nextId, killErr, panicked, preview, stateVars, migVars, envVars>>

TabsAllNext == TabsNext \/ TabsSetRepos

SpecTabsAll == TabsInit /\ [][TabsAllNext]_vars

\* C38: after any sequence of AddRepo, RemoveRepo, NextRepo, PrevRepo,
\* SelectRepo, SetSelectedIndex and SetRepos, when a repository is present
\* the selected index is at least 0 and below the number of repositories,
\* and GetSelectedRepo returns the path of a present repository.
C38_TabIndexInRange ==
    LET rt == list.repoTabs IN
    Len(rt.repos) > 0 =>
       /\ 0 <= rt.selectedIdx /\ rt.selectedIdx < Len(rt.repos)
       /\ \E i \in 1..Len(rt.repos) : rt.repos[i] = GetSelectedRepo(rt)
       /\ (\A i \in 1..Len(rt.repos) : rt.repos[i] # "")
             => GetSelectedRepo(rt) # ""

-----------------------------------------------------------------------------
(* The tabs, the counter map and the instances of the list                 *)

\* The repositories of the started, finalized instances in the list.
RegisteredRepos(l) ==
    {GetRepoPath(l.items[i]) :
        i \in {j \in 1..Len(l.items) : l.items[j].started /\ l.items[j].fin}}

\* The finalizer of a started instance of the list is called, as
\* AddInstance asks ("a finalizer function that should be called when the
\* instance is started"): the instance has its worktree, so its repository
\* is registered.
ListFinalizeStarted ==
    /\ ~panicked
    /\ \E i \in 1..Len(list.items) :
         /\ list.items[i].started
         /\ ~list.items[i].fin
         /\ ~SelectionPanics([list EXCEPT
                 !.repoTabs = RepoTabsAddRepo(@, GetRepoPath(list.items[i]))])
         /\ list' = Finalized(list, i)
    /\ UNCHANGED <<nextId, killErr, panicked, preview, stateVars, migVars, envVars>>

\* List.Kill once the finalizer of every started instance has been called.
ListKillRegistered == AllRegistered(list) /\ ListKill

RegisterNext ==
    \/ ListAddInstance
    \/ InstanceStart
    \/ ListFinalizeStarted
    \/ ListKillRegistered

SpecRegister == AddKillInit /\ [][RegisterNext]_vars

\* C39: after any sequence of AddInstance, with the finalizer of each
\* started instance called once, and Kill, the set of repository tabs is
\* the set of keys of the counter map and is the set of repositories of
\* the started, finalized instances in the list.
C39_TabsMatchInstances ==
    (~panicked /\ AllRegistered(list)) =>
       LET tabs == {list.repoTabs.repos[i] : i \in 1..Len(list.repoTabs.repos)}
           keys == {r \in ListRepos : list.repos[r] > 0}
       IN /\ tabs = keys
          /\ tabs = RegisteredRepos(list)

-----------------------------------------------------------------------------
(* Storage.SaveInstances: only started instances are stored                *)

\* The lists handed to SaveInstances: up to MaxStored live instances, the
\* i-th titled i, of any repository, started or not.
SaveArgs ==
    UNION { { [i \in 1..n |->
                  [data |-> [Title |-> i, RepositoryPath |-> f[i].path,
                             Restorable |-> TRUE],
                   started |-> f[i].started]] :
                 f \in [1..n -> [path : StatePaths, started : BOOLEAN]] } :
            n \in 0..MaxStored }

\* A document with any stored records has been loaded; stLast.hit tells
\* whether SaveInstances has been called since, stLast.saved with what.
SaveInit ==
    /\ state \in {[DefaultState EXCEPT !.InstancesData = l] : l \in StoredLists}
    /\ disk = WriteFile(state)
    /\ fsValid = {}
    /\ stLast = [op |-> "LoadState", hit |-> FALSE, cleared |-> FALSE,
                 n |-> 0, err |-> "", saves |-> 0,
                 saved |-> <<>>, loaded |-> <<>>]
    /\ failSaves = FALSE

\* Storage.SaveInstances(instances); State.SaveInstances writes the file.
StorageSaveInstances ==
    /\ \E instances \in SaveArgs :
          /\ state' = SaveInstances(state, instances).s
          /\ disk' = WriteFile(state')
          /\ stLast' = [op |-> "SaveInstances", hit |-> TRUE, cleared |-> FALSE,
                        n |-> Len(instances), err |-> "", saves |-> 1,
                        saved |-> instances, loaded |-> <<>>]
    /\ UNCHANGED <<fsValid, failSaves, listVars, migVars, envVars>>

\* Storage.LoadInstances(): the instances rebuilt from the stored records,
\* or an error.
StorageLoadInstances ==
    /\ LET r == LoadInstances(state) IN
       stLast' = [stLast EXCEPT !.op = "LoadInstances",
                                !.err = IF r.err THEN "loaderr" ELSE "",
                                !.n = Len(r.instances),
                                !.saves = 0,
                                !.loaded = r.instances]
    /\ UNCHANGED <<state, disk, fsValid, failSaves, listVars, migVars, envVars>>

SaveNext == StorageSaveInstances \/ StorageLoadInstances

SavingInit == ListIdle /\ SaveInit /\ MigIdle /\ EnvIdle

SpecSave == SavingInit /\ [][SaveNext]_vars

\* C40: Storage.SaveInstances persists exactly the started instances of
\* its argument, in argument order: after any sequence of saves the stored
\* records, in memory and on disk, are the data of the started instances
\* of the last argument, no record is that of an instance that was not
\* started, and LoadInstances returns started instances only, one for each
\* of them.
C40_OnlyStartedInstancesStored ==
    stLast.hit =>
       LET instances == stLast.saved
           started == SelectSeq(instances, LAMBDA inst : inst.started)
           expected == [i \in 1..Len(started) |-> ToInstanceData(started[i])]
       IN /\ state.InstancesData = expected
          /\ disk.present /\ disk.doc.InstancesData = expected
          /\ \A i \in 1..Len(instances) :
                ~instances[i].started =>
                   \A k \in 1..Len(state.InstancesData) :
                      state.InstancesData[k].Title # instances[i].data.Title
          /\ stLast.op = "LoadInstances" =>
                /\ stLast.err = ""
                /\ Len(stLast.loaded) = Len(started)
                /\ \A k \in 1..Len(stLast.loaded) :
                      /\ stLast.loaded[k].started
                      /\ ToInstanceData(stLast.loaded[k]) = expected[k]

\* Two instances were saved, the first not started and the second
\* started: one record is stored, that of the second, and it is the one
\* LoadInstances returns.
C40_Witness ==
    /\ stLast.op = "LoadInstances"
    /\ stLast.hit
    /\ Len(stLast.saved) = 2
    /\ ~stLast.saved[1].started
    /\ stLast.saved[2].started
    /\ Len(state.InstancesData) = 1
    /\ state.InstancesData[1].Title = 2
    /\ Len(stLast.loaded) = 1
    /\ ToInstanceData(stLast.loaded[1]).Title = 2

=============================================================================
